---------------------------- MODULE Spec2Model ----------------------------
(***************************************************************************)
(* Model of the big-integer adapter of demos/timing.c (the descriptor      *)
(* mbedtls_mpi_desc, lines 37-680): the adapter operations are translated  *)
(* from the C source; the multiprecision backend they delegate to          *)
(* (mbedtls_mpi_*, mpi_montg_init, mpi_montred) is not part of the         *)
(* repository and is modelled from its interface contract.                 *)
(*                                                                         *)
(* An mbedtls_mpi {s, n, p} is the record [s, n, v]: s the sign (+1/-1),   *)
(* n the number of stored digits (limbs) and v the magnitude the n digits  *)
(* p[0..n-1] encode, so p[i] = (v \div 2^(biL*i)) % 2^biL.  A freed or     *)
(* freshly initialised value has n = 0 (p == NULL).                        *)
(*                                                                         *)
(* Digits are scaled down so that every intermediate value fits the model  *)
(* checker's integers: a digit has ciL = 2 chars of CharBits = 4 bits      *)
(* (biL = 8) instead of 4 or 8 chars of 8 bits.  All digit arithmetic is   *)
(* taken modulo 2^biL exactly as in the C code.                            *)
(***************************************************************************)
EXTENDS Integers, Sequences, FiniteSets, TLC

\* ------------------------------------------------------------------ bounds

\* a and b of the arithmetic scenarios range over -MaxVal..MaxVal
MaxVal == 4

\* moduli of the Montgomery scenarios range over 0..MaxMod
MaxMod == 9

\* calls of one Montgomery run, deinit not counted
MaxCalls == 4

\* ------------------------------------------------------- digit geometry

\* bits in a char (CHAR_BIT, the "* 8" of the source), scaled to 4
CharBits == 4

\* sizeof(mbedtls_mpi_uint), chars in a digit, scaled to 2
ciL == 2

\* bits in a digit
biL == ciL * CharBits

RECURSIVE Pow2(_)
Pow2(k) == IF k <= 0 THEN 1 ELSE 2 * Pow2(k - 1)

\* 2^biL, the modulus of all single-digit arithmetic
Base == Pow2(biL)

Abs(x) == IF x < 0 THEN -x ELSE x

Max(x, y) == IF x < y THEN y ELSE x

Min(x, y) == IF x < y THEN x ELSE y

\* mathematical (floored) remainder for m > 0, of a value of either sign
EMod(x, m) == x % m

RECURSIVE BitLen(_)
BitLen(v) == IF v <= 0 THEN 0 ELSE 1 + BitLen(v \div 2)

CeilDiv(x, m) == (x + m - 1) \div m

RECURSIVE Gcd(_, _)
Gcd(x, y) == IF y = 0 THEN Abs(x) ELSE Gcd(y, Abs(x) % Abs(y))

\* bitwise AND of two naturals
RECURSIVE BitAnd(_, _)
BitAnd(x, y) ==
  IF x = 0 \/ y = 0 THEN 0
  ELSE (x % 2) * (y % 2) + 2 * BitAnd(x \div 2, y \div 2)

\* ---------------------------------------------------------- status codes

CRYPT_OK == "CRYPT_OK"

CRYPT_ERROR == "CRYPT_ERROR"

CRYPT_MEM == "CRYPT_MEM"

CRYPT_INVALID_ARG == "CRYPT_INVALID_ARG"

\* not a status: the call never returns to its caller
NO_RETURN == "NO_RETURN"

\* the backend's return value 0
MPI_OK == "0"

ERR_ALLOC_FAILED == "MBEDTLS_ERR_MPI_ALLOC_FAILED"

ERR_BAD_INPUT_DATA == "MBEDTLS_ERR_MPI_BAD_INPUT_DATA"

ERR_NEGATIVE_VALUE == "MBEDTLS_ERR_MPI_NEGATIVE_VALUE"

ERR_DIVISION_BY_ZERO == "MBEDTLS_ERR_MPI_DIVISION_BY_ZERO"

ERR_NOT_ACCEPTABLE == "MBEDTLS_ERR_MPI_NOT_ACCEPTABLE"

\* ------------------------------------------------- backend: mbedtls_mpi

\* mbedtls_mpi_init / mbedtls_mpi_free: s = 1, n = 0, p = NULL
MpiInit == [s |-> 1, n |-> 0, v |-> 0]

\* the signed value an mpi holds
Val(X) == X.s * X.v

\* digits needed for magnitude v (BITS_TO_LIMBS(bitlen)), 0 for v = 0
Limbs(v) == CeilDiv(BitLen(v), biL)

\* the digit count mbedtls_mpi_copy transfers: the used digits, at least 1
Used(v) == Max(1, Limbs(v))

\* an mpi of value x stored in k digits
Mpi(x, k) == [s |-> IF x < 0 THEN -1 ELSE 1, n |-> k, v |-> Abs(x)]

\* a backend result: return code and the destination after the call
Ret(rc, X) == [rc |-> rc, X |-> X]

mbedtls_mpi_bitlen(X) == BitLen(X.v)

\* bytes of the magnitude: (bitlen + 7) >> 3
mbedtls_mpi_size(X) == CeilDiv(mbedtls_mpi_bitlen(X), CharBits)

\* sign of X - Y as signed values (a zero of either sign equals zero)
mbedtls_mpi_cmp_mpi(X, Y) ==
  IF Val(X) < Val(Y) THEN -1 ELSE IF Val(X) > Val(Y) THEN 1 ELSE 0

mbedtls_mpi_cmp_abs(X, Y) ==
  IF X.v < Y.v THEN -1 ELSE IF X.v > Y.v THEN 1 ELSE 0

\* grow X to at least nblimbs digits; never shrinks
mbedtls_mpi_grow(X, nblimbs, oom) ==
  IF X.n >= nblimbs THEN Ret(MPI_OK, X)
  ELSE IF oom THEN Ret(ERR_ALLOC_FAILED, X)
  ELSE Ret(MPI_OK, [X EXCEPT !.n = nblimbs])

\* X = Y: a Y without storage frees X; otherwise the sign is taken over,
\* X is grown to the used digits of Y (allocation may fail) and filled
mbedtls_mpi_copy(X, Y, oom) ==
  IF Y.n = 0 THEN Ret(MPI_OK, MpiInit)
  ELSE IF X.n < Used(Y.v) /\ oom THEN Ret(ERR_ALLOC_FAILED, [X EXCEPT !.s = Y.s])
  ELSE Ret(MPI_OK, [s |-> Y.s, n |-> Max(X.n, Used(Y.v)), v |-> Y.v])

\* X = z
mbedtls_mpi_lset(X, z, oom) ==
  IF X.n < 1 /\ oom THEN Ret(ERR_ALLOC_FAILED, X)
  ELSE Ret(MPI_OK, [s |-> IF z < 0 THEN -1 ELSE 1, n |-> Max(X.n, 1), v |-> Abs(z)])

\* X <<= count
mbedtls_mpi_shift_l(X, count, oom) ==
  LET need == CeilDiv(BitLen(X.v) + count, biL) IN
  IF X.n < need /\ oom THEN Ret(ERR_ALLOC_FAILED, X)
  ELSE Ret(MPI_OK, [X EXCEPT !.n = Max(X.n, need), !.v = X.v * Pow2(count)])

\* X = A * B; the sign is the product of the signs, also for a zero product
mbedtls_mpi_mul_mpi(X, A, B, oom) ==
  IF oom THEN Ret(ERR_ALLOC_FAILED, X)
  ELSE Ret(MPI_OK, [s |-> A.s * B.s,
               n |-> Max(Max(X.n, Limbs(A.v) + Limbs(B.v)), 1),
               v |-> A.v * B.v])

\* R = A mod B: B < 0 is refused, B = 0 is a division by zero, and the
\* truncated remainder is brought into [0, B)
mbedtls_mpi_mod_mpi(R, A, B, oom) ==
  IF Val(B) < 0 THEN Ret(ERR_NEGATIVE_VALUE, R)
  ELSE IF B.v = 0 THEN Ret(ERR_DIVISION_BY_ZERO, R)
  ELSE IF oom THEN Ret(ERR_ALLOC_FAILED, R)
  ELSE LET r == EMod(Val(A), B.v) IN
       Ret(MPI_OK, [s |-> 1, n |-> Max(R.n, Used(r)), v |-> r])

\* X = A^-1 mod N: N <= 1 is bad input, gcd(A, N) != 1 is not acceptable
mbedtls_mpi_inv_mod(X, A, N, oom) ==
  IF Val(N) <= 1 THEN Ret(ERR_BAD_INPUT_DATA, X)
  ELSE IF oom THEN Ret(ERR_ALLOC_FAILED, X)
  ELSE IF Gcd(A.v, N.v) # 1 THEN Ret(ERR_NOT_ACCEPTABLE, X)
  ELSE LET i == CHOOSE k \in 0..(N.v - 1) : EMod(Val(A) * k, N.v) = 1 IN
       Ret(MPI_OK, [s |-> 1, n |-> Max(X.n, Used(i)), v |-> i])

\* left-to-right square and multiply of b^e modulo m, for b in [0, m)
RECURSIVE PowMod(_, _, _)
PowMod(b, e, m) ==
  IF e = 0 THEN 1 % m
  ELSE LET h == PowMod(b, e \div 2, m)
           q == (h * h) % m
       IN IF e % 2 = 1 THEN (q * b) % m ELSE q

\* X = A^E mod N: N must be positive and odd and E non-negative
mbedtls_mpi_exp_mod(X, A, E, N, oom) ==
  IF Val(N) <= 0 \/ N.v % 2 = 0 THEN Ret(ERR_BAD_INPUT_DATA, X)
  ELSE IF Val(E) < 0 THEN Ret(ERR_BAD_INPUT_DATA, X)
  ELSE IF oom THEN Ret(ERR_ALLOC_FAILED, X)
  ELSE LET r == PowMod(EMod(Val(A), N.v), E.v, N.v) IN
       Ret(MPI_OK, [s |-> 1, n |-> Max(X.n, N.n + 1), v |-> r])

\* digit i of X (p[i]), for i < X.n
Digit(X, i) == IF i >= X.n THEN 0 ELSE (X.v \div Pow2(biL * i)) % Base

\* X with its digits below index k cleared
Above(X, k) == IF k >= X.n THEN 0 ELSE X.v - (X.v % Pow2(biL * k))

\* the Newton iteration of mpi_montg_init: for (i = biL; i >= 8; i /= 2)
RECURSIVE MontgIter(_, _, _)
MontgIter(x, m0, i) ==
  IF i < 8 THEN x
  ELSE MontgIter((x * EMod(2 - m0 * x, Base)) % Base, m0, i \div 2)

\* mm = -N^-1 mod 2^biL, derived from the lowest digit of N
mpi_montg_init(N) ==
  LET m0 == Digit(N, 0)
      x0 == (m0 + 2 * BitAnd(m0 + 2, 4)) % Base
      x  == MontgIter(x0, m0, biL)
  IN (Base - x) % Base

\* the digit loop of mpi_montmul: i-th round of
\* T = (T + u0*B + u1*N) / 2^biL with u0 = A.p[i], over the n = N.n digits
RECURSIVE MontLoop(_, _, _, _, _, _)
MontLoop(t, A, Bv, N, mm, i) ==
  IF i >= N.n THEN t
  ELSE LET u0 == Digit(A, i)
           u1 == (((t % Base) + u0 * (Bv % Base)) * mm) % Base
       IN MontLoop((t + u0 * Bv + u1 * N.v) \div Base, A, Bv, N, mm, i + 1)

\* A = A * B * R^-1 mod N with R = 2^(biL * N.n): the low N.n + 1 digits of A
\* are replaced by the loop's result, minus N when that is not below N
mpi_montmul(A, B, N, mm, T) ==
  IF T.n < N.n + 1 THEN Ret(ERR_BAD_INPUT_DATA, A)
  ELSE LET m   == Min(B.n, N.n)
           Bv  == B.v % Pow2(biL * m)
           t   == MontLoop(0, A, Bv, N, mm, 0)
           A1  == [A EXCEPT !.v = t + Above(A, N.n + 1)]
       IN IF mbedtls_mpi_cmp_abs(A1, N) >= 0
          THEN Ret(MPI_OK, [A1 EXCEPT !.v = A1.v - N.v])
          ELSE Ret(MPI_OK, A1)

\* Montgomery reduction: A = A * R^-1 mod N, a montmul by the one-digit 1
mpi_montred(A, N, mm, T) == mpi_montmul(A, [s |-> 1, n |-> 1, v |-> 1], N, mm, T)

ERR_BUFFER_TOO_SMALL == "MBEDTLS_ERR_MPI_BUFFER_TOO_SMALL"

ERR_FILE_IO_ERROR == "MBEDTLS_ERR_MPI_FILE_IO_ERROR"

\* X = |A| + |B|, the sign left to the caller; X is grown to hold the sum
mbedtls_mpi_add_abs(X, A, B, oom) ==
  LET need == Max(Max(Used(A.v), Used(B.v)), Limbs(A.v + B.v)) IN
  IF X.n < need /\ oom THEN Ret(ERR_ALLOC_FAILED, X)
  ELSE Ret(MPI_OK, [s |-> 1, n |-> Max(X.n, need), v |-> A.v + B.v])

\* X = |A| - |B|, refused when |A| < |B|
mbedtls_mpi_sub_abs(X, A, B, oom) ==
  IF A.v < B.v THEN Ret(ERR_NEGATIVE_VALUE, X)
  ELSE IF X.n < Used(A.v) /\ oom THEN Ret(ERR_ALLOC_FAILED, X)
  ELSE Ret(MPI_OK, [s |-> 1, n |-> Max(X.n, Used(A.v)), v |-> A.v - B.v])

\* the sign a successful add/sub leaves; a failed one leaves X as it was
Signed(r, s) == IF r.rc = MPI_OK THEN Ret(MPI_OK, [r.X EXCEPT !.s = s]) ELSE r

\* X = A + B: magnitudes are added for equal signs, subtracted otherwise,
\* and the sign is that of the larger magnitude (a zero result keeps it)
mbedtls_mpi_add_mpi(X, A, B, oom) ==
  IF A.s * B.s < 0
  THEN IF mbedtls_mpi_cmp_abs(A, B) >= 0
       THEN Signed(mbedtls_mpi_sub_abs(X, A, B, oom), A.s)
       ELSE Signed(mbedtls_mpi_sub_abs(X, B, A, oom), -A.s)
  ELSE Signed(mbedtls_mpi_add_abs(X, A, B, oom), A.s)

\* X = A - B
mbedtls_mpi_sub_mpi(X, A, B, oom) ==
  IF A.s * B.s > 0
  THEN IF mbedtls_mpi_cmp_abs(A, B) >= 0
       THEN Signed(mbedtls_mpi_sub_abs(X, A, B, oom), A.s)
       ELSE Signed(mbedtls_mpi_sub_abs(X, B, A, oom), -A.s)
  ELSE Signed(mbedtls_mpi_add_abs(X, A, B, oom), A.s)

\* the one-digit mpi the *_int functions build on their stack
IntMpi(b) == [s |-> IF b < 0 THEN -1 ELSE 1, n |-> 1, v |-> Abs(b)]

mbedtls_mpi_add_int(X, A, b, oom) == mbedtls_mpi_add_mpi(X, A, IntMpi(b), oom)

mbedtls_mpi_sub_int(X, A, b, oom) == mbedtls_mpi_sub_mpi(X, A, IntMpi(b), oom)

mbedtls_mpi_mul_int(X, A, b, oom) == mbedtls_mpi_mul_mpi(X, A, IntMpi(b), oom)

\* X >>= count: the magnitude is shifted, sign and storage stay
mbedtls_mpi_shift_r(X, count) == Ret(MPI_OK, [X EXCEPT !.v = X.v \div Pow2(count)])

\* index of the lowest set bit, 0 for zero
RECURSIVE Lsb(_)
Lsb(v) == IF v = 0 \/ v % 2 = 1 THEN 0 ELSE 1 + Lsb(v \div 2)

mbedtls_mpi_lsb(X) == Lsb(X.v)

\* the binary gcd loop on the magnitudes TA and TB: both are stripped of
\* their trailing zero bits, the smaller is subtracted from the larger and
\* the difference halved, until TA is zero; TB is what is left
RECURSIVE GcdLoop(_, _)
GcdLoop(TA, TB) ==
  IF TA = 0 THEN TB
  ELSE LET ta == TA \div Pow2(Lsb(TA))
           tb == TB \div Pow2(Lsb(TB))
       IN IF ta >= tb THEN GcdLoop((ta - tb) \div 2, tb)
          ELSE GcdLoop(ta, (tb - ta) \div 2)

\* G = gcd(A, B) by the binary algorithm on copies of A and B: the common
\* power of two lz is taken out first and put back at the end
mbedtls_mpi_gcd(G, A, B, oom) ==
  IF oom THEN Ret(ERR_ALLOC_FAILED, G)
  ELSE LET lz == Min(Lsb(A.v), Lsb(B.v))
           g == GcdLoop(A.v \div Pow2(lz), B.v \div Pow2(lz)) * Pow2(lz)
       IN IF B.n = 0 /\ g = 0 THEN Ret(MPI_OK, MpiInit)
          ELSE Ret(MPI_OK, [s |-> 1, n |-> Max(G.n, Used(g)), v |-> g])

\* a division result: return code, quotient and remainder destinations
RetQR(rc, Q, R) == [rc |-> rc, Q |-> Q, R |-> R]

\* A = Q * B + R by truncating division of the magnitudes, on copies of A
\* and B.  B = 0 is refused before anything is written.  For |A| < |B| Q is
\* set to 0 and then R is copied from A.  Otherwise the quotient is copied
\* into Q and then given the sign A->s * B->s, and after that the remainder
\* is given the sign A->s, +1 when it is zero: A->s and B->s are read after
\* Q has been written, so a Q that is A or B has replaced that sign by the
\* +1 of the copied quotient, and by Q's new sign when R is signed.
mbedtls_mpi_div_mpi(Q, R, A, B, al, oom) ==
  IF B.v = 0 THEN RetQR(ERR_DIVISION_BY_ZERO, Q, R)
  ELSE IF oom THEN RetQR(ERR_ALLOC_FAILED, Q, R)
  ELSE IF A.v < B.v
  THEN LET Q1 == mbedtls_mpi_lset(Q, 0, FALSE).X
           A1 == IF al.QA THEN Q1 ELSE A
       IN RetQR(MPI_OK, Q1, mbedtls_mpi_copy(R, A1, FALSE).X)
  ELSE LET q == A.v \div B.v
           r == A.v % B.v
           qs == (IF al.QA THEN 1 ELSE A.s) * (IF al.QB THEN 1 ELSE B.s)
           rs == IF al.QA THEN qs ELSE A.s
       IN RetQR(MPI_OK,
                [s |-> qs, n |-> Max(Q.n, Used(q)), v |-> q],
                [s |-> IF r = 0 THEN 1 ELSE rs, n |-> Max(R.n, Used(r)), v |-> r])

\* a buffer result: return code and the bytes written
RetBuf(rc, buf) == [rc |-> rc, buf |-> buf]

\* the magnitude of X big-endian in buflen bytes, zero-padded on the left;
\* refused when the magnitude needs more than buflen bytes
mbedtls_mpi_write_binary(X, buflen) ==
  IF buflen < mbedtls_mpi_size(X) THEN RetBuf(ERR_BUFFER_TOO_SMALL, <<>>)
  ELSE RetBuf(MPI_OK, [i \in 1..buflen |->
                         (X.v \div Pow2(CharBits * (buflen - i))) % Pow2(CharBits)])

\* the number a big-endian byte string denotes
RECURSIVE FromBytes(_)
FromBytes(buf) ==
  IF buf = <<>> THEN 0
  ELSE FromBytes(SubSeq(buf, 1, Len(buf) - 1)) * Pow2(CharBits) + buf[Len(buf)]

\* X = the non-negative number in buf, stored in CHARS_TO_LIMBS(buflen)
\* digits, at least one
mbedtls_mpi_read_binary(X, buf, oom) ==
  IF oom THEN Ret(ERR_ALLOC_FAILED, X)
  ELSE Ret(MPI_OK, [s |-> 1, n |-> Max(CeilDiv(Len(buf), ciL), 1), v |-> FromBytes(buf)])

\* ------------------------------------------------ the random source

\* what the process-wide generator does with a request: it delivers all the
\* bytes asked for, one byte less, or none
RngModes == {"full", "short", "none"}

\* sprng_read(buf, blen, NULL): the number of bytes delivered
sprng_read(blen, mode) ==
  IF mode = "full" THEN blen
  ELSE IF mode = "short" THEN Max(blen - 1, 0)
  ELSE 0

\* largest entry of the backend's table of small primes
SmallPrimeMax == 997

\* the backend's limit on the byte size of an mpi
MPI_MAX_SIZE == 1024

\* v has a divisor among the small primes below it
SmallFactor(v) == \E p \in 3..Min(v - 1, SmallPrimeMax) : v % p = 0

IsPrime(v) == v >= 2 /\ \A p \in 2..(v - 1) : p * p > v \/ v % p # 0

\* ------------------------------------------------------------- the store

\* the caller's integer handles
Handles == {"a", "b", "n", "d", "x"}

\* the adapter's stack temporaries: mulmod's ta, tb; montgomery_reduce's A, T;
\* exptmod's dest; compare_d's bn; modi's bn_b, bn_c; lcm's tmp
Locals == {"ta", "tb", "A", "T", "dest", "bn", "bn_b", "bn_c", "tmp"}

\* entering a call: the temporaries are mbedtls_mpi_init'ed
Enter(hs) == [c \in Handles \cup Locals |-> IF c \in Handles THEN hs[c] ELSE MpiInit]

\* leaving a call: the handles as the call left them
Exit(m) == [c \in Handles |-> m[c]]

\* temporaries that still own storage
LiveTemps(m) == {l \in Locals : m[l].n > 0}

\* mbedtls_mpi_free of cell c
Free(m, c) == [m EXCEPT ![c] = MpiInit]

\* an adapter result: status and the store after the call
Res(st, m) == [st |-> st, m |-> m]

\* ---------------------------------------------------- adapter operations
\* Handle arguments are cell names; f numbers the backend call whose
\* allocation fails (0: none fails).

\* ROUNDUP without the "+ size - 1": rounds down
ROUNDUP_down(v, size) == v - BitAnd(v, size - 1)

ROUNDUP(v, size) ==
  LET t == v + (size - 1) IN t - BitAnd(t, size - 1)

copy(m, a, b, f) ==
  LET r == mbedtls_mpi_copy(m[b], m[a], f = 1)
      m1 == [m EXCEPT ![b] = r.X]
  IN IF r.rc # MPI_OK THEN Res(CRYPT_MEM, m1) ELSE Res(CRYPT_OK, m1)

mul(m, a, b, c, f) ==
  LET r == mbedtls_mpi_mul_mpi(m[c], m[a], m[b], f = 1)
      m1 == [m EXCEPT ![c] = r.X]
  IN IF r.rc # MPI_OK THEN Res(CRYPT_MEM, m1) ELSE Res(CRYPT_OK, m1)

\* mod taking the remainder of the truncating division as it is
mod_truncated(m, a, b, c, f) ==
  LET A == m[a]
      B == m[b]
  IN IF B.v = 0 THEN Res(CRYPT_ERROR, m)
     ELSE IF f = 1 THEN Res(CRYPT_MEM, m)
     ELSE Res(CRYPT_OK, [m EXCEPT ![c] = [s |-> A.s,
                                          n |-> Max(@.n, Used(A.v % B.v)),
                                          v |-> A.v % B.v]])

\* mod(a, b, c). When c, a and b are one object and it is positive, the
\* backend's division stores the remainder 0 into it and the closing loop
\* "while (cmp_mpi(R, B) >= 0) sub_mpi(R, R, B)" compares the object with
\* itself for ever: the call does not return.
mod(m, a, b, c, f) ==
  LET r == mbedtls_mpi_mod_mpi(m[c], m[a], m[b], f = 1)
      m1 == [m EXCEPT ![c] = r.X]
  IN IF a = c /\ b = c /\ r.rc = MPI_OK THEN Res(NO_RETURN, m1)
     ELSE IF r.rc = ERR_ALLOC_FAILED THEN Res(CRYPT_MEM, m1)
     ELSE IF r.rc # MPI_OK THEN Res(CRYPT_ERROR, m1)
     ELSE Res(CRYPT_OK, m1)

\* mulmod without the final reduction of the product
mulmod_noreduce(m, a, b, c, d, f) ==
  LET r1 == mod(m, a, c, "ta", IF f = 1 THEN 1 ELSE 0)
      r2 == mod(r1.m, b, c, "tb", IF f = 2 THEN 1 ELSE 0)
      r3 == mul(r2.m, "ta", "tb", d, IF f = 3 THEN 1 ELSE 0)
      out == IF r1.st # CRYPT_OK THEN r1
             ELSE IF r2.st # CRYPT_OK THEN r2
             ELSE r3
  IN Res(out.st, Free(Free(out.m, "ta"), "tb"))

mulmod(m, a, b, c, d, f) ==
  LET r1 == mod(m, a, c, "ta", IF f = 1 THEN 1 ELSE 0)
      r2 == mod(r1.m, b, c, "tb", IF f = 2 THEN 1 ELSE 0)
      r3 == mul(r2.m, "ta", "tb", d, IF f = 3 THEN 1 ELSE 0)
      r4 == mod(r3.m, d, c, d, IF f = 4 THEN 1 ELSE 0)
      out == IF r1.st # CRYPT_OK THEN r1
             ELSE IF r2.st # CRYPT_OK THEN r2
             ELSE IF r3.st # CRYPT_OK THEN r3
             ELSE r4
  IN Res(out.st, Free(Free(out.m, "ta"), "tb"))

\* invmod with the value and the modulus exchanged
invmod_swapped(m, a, b, c, f) ==
  LET r == mbedtls_mpi_inv_mod(m[c], m[b], m[a], f = 1)
      m1 == [m EXCEPT ![c] = r.X]
  IN IF r.rc = ERR_ALLOC_FAILED THEN Res(CRYPT_MEM, m1)
     ELSE IF r.rc # MPI_OK THEN Res(CRYPT_ERROR, m1)
     ELSE Res(CRYPT_OK, m1)

\* invmod reporting every backend failure as MEMORY
invmod_anyerr(m, a, b, c, f) ==
  LET r == mbedtls_mpi_inv_mod(m[c], m[a], m[b], f = 1)
      m1 == [m EXCEPT ![c] = r.X]
  IN IF r.rc # MPI_OK THEN Res(CRYPT_MEM, m1) ELSE Res(CRYPT_OK, m1)

invmod(m, a, b, c, f) ==
  LET r == mbedtls_mpi_inv_mod(m[c], m[a], m[b], f = 1)
      m1 == [m EXCEPT ![c] = r.X]
  IN IF r.rc = ERR_ALLOC_FAILED THEN Res(CRYPT_MEM, m1)
     ELSE IF r.rc # MPI_OK THEN Res(CRYPT_ERROR, m1)
     ELSE Res(CRYPT_OK, m1)

\* the Montgomery context: the malloc'ed digit, or NULL
NullCtx == [alloc |-> FALSE, mm |-> 0]

\* montgomery_setup without the call of mpi_montg_init
montgomery_setup_noinit(m, a, mallocFails) ==
  IF mallocFails THEN [st |-> CRYPT_MEM, ctx |-> NullCtx]
  ELSE [st |-> CRYPT_OK, ctx |-> [alloc |-> TRUE, mm |-> 0]]

montgomery_setup(m, a, mallocFails) ==
  IF mallocFails THEN [st |-> CRYPT_MEM, ctx |-> NullCtx]
  ELSE [st |-> CRYPT_OK, ctx |-> [alloc |-> TRUE, mm |-> mpi_montg_init(m[a])]]

\* the shift count of montgomery_normalization, in bits
NormShift(N) == ROUNDUP(mbedtls_mpi_size(N), ciL) * CharBits

montgomery_normalization(m, a, b, f) ==
  LET c  == NormShift(m[b])
      r1 == mbedtls_mpi_lset(m[a], 1, f = 1)
      m1 == [m EXCEPT ![a] = r1.X]
      r2 == mbedtls_mpi_shift_l(m1[a], c, f = 2)
      m2 == [m1 EXCEPT ![a] = r2.X]
      r3 == mbedtls_mpi_mod_mpi(m2[a], m2[a], m2[b], f = 3)
      m3 == [m2 EXCEPT ![a] = r3.X]
  IN IF r1.rc # MPI_OK THEN Res(CRYPT_MEM, m1)
     ELSE IF r2.rc # MPI_OK THEN Res(CRYPT_MEM, m2)
     ELSE IF r3.rc # MPI_OK THEN Res(CRYPT_MEM, m3)
     ELSE Res(CRYPT_OK, m3)

\* the steps of montgomery_reduce up to its exit: the status, the store, and
\* whether the exit went through the "out" label
ReduceSteps(m, a, b, ctx, f) ==
  LET N  == m[b]
      r1 == mbedtls_mpi_grow(m["T"], (N.n + 1) * 2, f = 1)
      m1 == [m EXCEPT !["T"] = r1.X]
      r2 == IF mbedtls_mpi_cmp_mpi(m1[a], N) > 0
            THEN mbedtls_mpi_mod_mpi(m1["A"], m1[a], N, f = 2)
            ELSE mbedtls_mpi_copy(m1["A"], m1[a], f = 2)
      m2 == [m1 EXCEPT !["A"] = r2.X]
      r3 == mbedtls_mpi_grow(m2["A"], N.n + 1, f = 3)
      m3 == [m2 EXCEPT !["A"] = r3.X]
      r4 == mpi_montred(m3["A"], N, ctx.mm, m3["T"])
      m4 == [m3 EXCEPT !["A"] = r4.X]
      r5 == mbedtls_mpi_copy(m4[a], m4["A"], f = 5)
      m5 == [m4 EXCEPT ![a] = r5.X]
  IN IF r1.rc # MPI_OK THEN Res(CRYPT_MEM, m1)
     ELSE IF r2.rc # MPI_OK THEN Res(CRYPT_MEM, m2)
     ELSE IF r3.rc # MPI_OK THEN Res(CRYPT_MEM, m3)
     ELSE IF r4.rc # MPI_OK THEN Res(CRYPT_MEM, m4)
     ELSE IF r5.rc # MPI_OK THEN Res(CRYPT_MEM, m5)
     ELSE Res(CRYPT_OK, m5)

\* montgomery_reduce returning on a failure without passing "out"
montgomery_reduce_leak(m, a, b, ctx, f) ==
  LET r == ReduceSteps(m, a, b, ctx, f) IN
  IF r.st # CRYPT_OK THEN r ELSE Res(r.st, Free(Free(r.m, "A"), "T"))

\* montgomery_reduce that reduces a modulo N in a itself before it works on
\* the copy
montgomery_reduce_early(m, a, b, ctx, f) ==
  LET r0 == IF mbedtls_mpi_cmp_mpi(m[a], m[b]) > 0
            THEN mbedtls_mpi_mod_mpi(m[a], m[a], m[b], FALSE)
            ELSE Ret(MPI_OK, m[a])
      m0 == IF r0.rc = MPI_OK THEN [m EXCEPT ![a] = r0.X] ELSE m
      r  == ReduceSteps(m0, a, b, ctx, f)
  IN Res(r.st, Free(Free(r.m, "A"), "T"))

montgomery_reduce(m, a, b, ctx, f) ==
  LET r == ReduceSteps(m, a, b, ctx, f) IN
  Res(r.st, Free(Free(r.m, "A"), "T"))

\* free(a): the allocation, if any, is released
montgomery_deinit(ctx) == NullCtx

exptmod(m, a, b, c, d, f) ==
  IF d = a \/ d = b \/ d = c
  THEN LET r1 == mbedtls_mpi_exp_mod(m["dest"], m[a], m[b], m[c], f = 1)
           m1 == [m EXCEPT !["dest"] = r1.X]
           r2 == IF r1.rc = MPI_OK
                 THEN mbedtls_mpi_copy(m1[d], m1["dest"], f = 2)
                 ELSE Ret(r1.rc, m1[d])
           m2 == Free([m1 EXCEPT ![d] = r2.X], "dest")
       IN IF r2.rc # MPI_OK THEN Res(CRYPT_MEM, m2) ELSE Res(CRYPT_OK, m2)
  ELSE LET r == mbedtls_mpi_exp_mod(m[d], m[a], m[b], m[c], f = 1)
           m1 == [m EXCEPT ![d] = r.X]
       IN IF r.rc # MPI_OK THEN Res(CRYPT_MEM, m1) ELSE Res(CRYPT_OK, m1)

\* ------------------------------------------------- the primitive layer

\* the width of uint32_t, in the model one digit
U32Bits == 8

\* the width of ltc_mp_digit (unsigned long): wider than uint32_t
LtcDigitBits == 16

UINT32_MAX == Pow2(U32Bits) - 1

\* the conversion (uint32_t) b
U32(b) == b % Pow2(U32Bits)

LTC_MP_LT == -1

LTC_MP_EQ == 0

LTC_MP_GT == 1

LTC_MP_NO == 0

LTC_MP_YES == 1

\* an adapter result that also returns a value or stores one through a pointer
ResOut(st, m, o) == [st |-> st, m |-> m, o |-> o]

\* a stack mpi goes out of scope when the call returns
Drop(r, c) == [r EXCEPT !.m = Free(r.m, c)]

\* b = -a: a copy, then the sign field is flipped
neg(m, a, b, f) ==
  LET r == mbedtls_mpi_copy(m[b], m[a], f = 1)
      m1 == [m EXCEPT ![b] = r.X]
  IN IF r.rc # MPI_OK THEN Res(CRYPT_MEM, m1)
     ELSE Res(CRYPT_OK, [m1 EXCEPT ![b].s = -m1[b].s])

set_int(m, a, b, f) ==
  LET b32 == U32(b) IN
  IF b32 # b THEN Res(CRYPT_INVALID_ARG, m)
  ELSE LET r == mbedtls_mpi_copy(m[a], IntMpi(b32), f = 1)
           m1 == [m EXCEPT ![a] = r.X]
       IN IF r.rc # MPI_OK THEN Res(CRYPT_MEM, m1) ELSE Res(CRYPT_OK, m1)

\* the top stored digit p[n - 1], 0 without storage
get_int(X) == IF X.n = 0 THEN 0 ELSE Digit(X, X.n - 1)

\* the stored digit p[n], 0 outside the storage
get_digit(X, n) == IF n < 0 \/ n >= X.n THEN 0 ELSE Digit(X, n)

compare(X, Y) ==
  LET ret == mbedtls_mpi_cmp_mpi(X, Y) IN
  IF ret < 0 THEN LTC_MP_LT ELSE IF ret > 0 THEN LTC_MP_GT ELSE LTC_MP_EQ

\* compare_d's loop: the low chunk of v is added to bn, v is shifted down,
\* and bn is shifted up when more of v is left
RECURSIVE AssembleChunks(_, _)
AssembleChunks(bn, v) ==
  LET shift == U32Bits - 1
      mask == Pow2(shift) - 1
      bn1 == mbedtls_mpi_add_int(bn, bn, v % (mask + 1), FALSE).X
      v1 == v \div Pow2(shift)
  IN IF v1 = 0 THEN bn1
     ELSE AssembleChunks(mbedtls_mpi_shift_l(bn1, shift, FALSE).X, v1)

\* the backend calls' return values are ignored; their allocations are
\* taken to succeed
compare_d(m, a, b) ==
  LET m1 == [m EXCEPT !["bn"] = AssembleChunks(MpiInit, b)]
  IN ResOut(CRYPT_OK, Free(m1, "bn"), compare(m1[a], m1["bn"]))

unsigned_size(X) == mbedtls_mpi_size(X)

\* unsigned_write that emits the bytes least significant first
unsigned_write_le(m, a) ==
  LET r == mbedtls_mpi_write_binary(m[a], unsigned_size(m[a]))
  IN ResOut(CRYPT_OK, m, [i \in 1..Len(r.buf) |-> r.buf[Len(r.buf) + 1 - i]])

unsigned_write(m, a) ==
  LET r == mbedtls_mpi_write_binary(m[a], unsigned_size(m[a]))
  IN IF r.rc = ERR_ALLOC_FAILED THEN ResOut(CRYPT_MEM, m, r.buf)
     ELSE IF r.rc # MPI_OK THEN ResOut(CRYPT_ERROR, m, r.buf)
     ELSE ResOut(CRYPT_OK, m, r.buf)

unsigned_read(m, a, b, f) ==
  LET r == mbedtls_mpi_read_binary(m[a], b, f = 1)
      m1 == [m EXCEPT ![a] = r.X]
  IN IF r.rc = ERR_ALLOC_FAILED THEN Res(CRYPT_MEM, m1)
     ELSE IF r.rc # MPI_OK THEN Res(CRYPT_ERROR, m1)
     ELSE Res(CRYPT_OK, m1)

add(m, a, b, c, f) ==
  LET r == mbedtls_mpi_add_mpi(m[c], m[a], m[b], f = 1)
      m1 == [m EXCEPT ![c] = r.X]
  IN IF r.rc # MPI_OK THEN Res(CRYPT_MEM, m1) ELSE Res(CRYPT_OK, m1)

\* addi without the width test: the truncated operand is added
addi_truncating(m, a, b, c, f) ==
  Drop(add([m EXCEPT !["bn"] = IntMpi(U32(b))], a, "bn", c, f), "bn")

addi(m, a, b, c, f) ==
  LET b32 == U32(b) IN
  IF b32 # b THEN Res(CRYPT_INVALID_ARG, m)
  ELSE Drop(add([m EXCEPT !["bn"] = IntMpi(b32)], a, "bn", c, f), "bn")

sub(m, a, b, c, f) ==
  LET r == mbedtls_mpi_sub_mpi(m[c], m[a], m[b], f = 1)
      m1 == [m EXCEPT ![c] = r.X]
  IN IF r.rc # MPI_OK THEN Res(CRYPT_MEM, m1) ELSE Res(CRYPT_OK, m1)

\* addmod(a, b, c, d): d = a + b, then d = d mod c
addmod(m, a, b, c, d, f) ==
  LET r1 == add(m, a, b, d, IF f = 1 THEN 1 ELSE 0) IN
  IF r1.st # CRYPT_OK THEN r1
  ELSE mod(r1.m, d, c, d, IF f = 2 THEN 1 ELSE 0)

\* submod(a, b, c, d): d = a - b, then d = d mod c
submod(m, a, b, c, d, f) ==
  LET r1 == sub(m, a, b, d, IF f = 1 THEN 1 ELSE 0) IN
  IF r1.st # CRYPT_OK THEN r1
  ELSE mod(r1.m, d, c, d, IF f = 2 THEN 1 ELSE 0)

\* sqrmod(a, b, c): c = a * a mod b
sqrmod(m, a, b, c, f) == mulmod(m, a, a, b, c, f)

subi(m, a, b, c, f) ==
  LET b32 == U32(b) IN
  IF b32 # b THEN Res(CRYPT_INVALID_ARG, m)
  ELSE Drop(sub([m EXCEPT !["bn"] = IntMpi(b32)], a, "bn", c, f), "bn")

muli(m, a, b, c, f) ==
  IF b > UINT32_MAX THEN Res(CRYPT_INVALID_ARG, m)
  ELSE LET r == mbedtls_mpi_mul_int(m[c], m[a], b, f = 1)
           m1 == [m EXCEPT ![c] = r.X]
       IN IF r.rc # MPI_OK THEN Res(CRYPT_MEM, m1) ELSE Res(CRYPT_OK, m1)

sqr(m, a, b, f) == mul(m, a, a, b, f)

\* the handle name that stands for a NULL destination
NULL == "NULL"

\* cell c of store m, an empty mpi for NULL
Cell(m, c) == IF c = NULL THEN MpiInit ELSE m[c]

\* init(&p): c is the object XCALLOC returns; ptr is what *a holds after the
\* call and hnd the handle allocations of the call that are live
init(m, c, callocFails) ==
  IF callocFails THEN [st |-> CRYPT_MEM, m |-> m, ptr |-> NULL, hnd |-> 0]
  ELSE [st |-> CRYPT_OK, m |-> [m EXCEPT ![c] = MpiInit], ptr |-> c, hnd |-> 1]

\* init_copy(&p, b): init, then copy(b, *a); the status of copy is returned
\* as it is
init_copy(m, c, b, f) ==
  LET r1 == init(m, c, f = 1) IN
  IF r1.st # CRYPT_OK THEN [r1 EXCEPT !.st = CRYPT_MEM]
  ELSE LET r2 == copy(r1.m, b, r1.ptr, IF f = 2 THEN 1 ELSE 0)
       IN [st |-> r2.st, m |-> r2.m, ptr |-> r1.ptr, hnd |-> r1.hnd]

\* deinit(p): the digits and the object are released
deinit(m, a) == Res(CRYPT_OK, Free(m, a))

\* writing through the destination pointers c and d; NULL is skipped
PutQR(m, c, d, r) ==
  LET m1 == IF c = NULL THEN m ELSE [m EXCEPT ![c] = r.Q]
  IN IF d = NULL THEN m1 ELSE [m1 EXCEPT ![d] = r.R]

\* divide with quotient and remainder destinations exchanged
divide_swapped(m, a, b, c, d, f) ==
  LET r == mbedtls_mpi_div_mpi(Cell(m, d), Cell(m, c), m[a], m[b],
                               [QA |-> d = a, QB |-> d = b], f = 1)
      m1 == PutQR(m, d, c, r)
  IN IF r.rc = ERR_ALLOC_FAILED THEN Res(CRYPT_MEM, m1)
     ELSE IF r.rc # MPI_OK THEN Res(CRYPT_ERROR, m1)
     ELSE Res(CRYPT_OK, m1)

\* c = a / b, d = a mod b
divide(m, a, b, c, d, f) ==
  LET r == mbedtls_mpi_div_mpi(Cell(m, c), Cell(m, d), m[a], m[b],
                               [QA |-> c = a, QB |-> c = b], f = 1)
      m1 == PutQR(m, c, d, r)
  IN IF r.rc = ERR_ALLOC_FAILED THEN Res(CRYPT_MEM, m1)
     ELSE IF r.rc # MPI_OK THEN Res(CRYPT_ERROR, m1)
     ELSE Res(CRYPT_OK, m1)

\* b = a / 2: a copy, then a shift right by one
div_2(m, a, b, f) ==
  LET r == mbedtls_mpi_copy(m[b], m[a], f = 1)
      m1 == [m EXCEPT ![b] = r.X]
      r2 == mbedtls_mpi_shift_r(m1[b], 1)
  IN IF r.rc # MPI_OK THEN Res(CRYPT_MEM, m1)
     ELSE IF r2.rc # MPI_OK THEN Res(CRYPT_MEM, m1)
     ELSE Res(CRYPT_OK, [m1 EXCEPT ![b] = r2.X])

\* *c = get_int(b mod a): b goes through set_int into bn_b, and bn_b is
\* reduced modulo a; cin is what *c held before
modi(m, a, b, cin, f) ==
  LET r1 == set_int(m, "bn_b", b, f)
      r2 == mbedtls_mpi_mod_mpi(r1.m["bn_c"], r1.m["bn_b"], r1.m[a], f = 2)
      m2 == [r1.m EXCEPT !["bn_c"] = r2.X]
      c == IF r2.rc = MPI_OK THEN get_int(m2["bn_c"]) ELSE cin
      m3 == Free(Free(m2, "bn_b"), "bn_c")
  IN IF r1.st # CRYPT_OK THEN ResOut(r1.st, r1.m, cin)
     ELSE IF r2.rc # MPI_OK THEN ResOut(CRYPT_MEM, m3, c)
     ELSE ResOut(CRYPT_OK, m3, c)

\* c = lcm(a, b): the product goes into tmp, the gcd into c, and c becomes
\* tmp / c; tmp is freed on every path
lcm(m, a, b, c, f) ==
  LET r1 == mbedtls_mpi_mul_mpi(m["tmp"], m[a], m[b], f = 1)
      m1 == [m EXCEPT !["tmp"] = r1.X]
      r2 == mbedtls_mpi_gcd(m1[c], m1[a], m1[b], f = 2)
      m2 == [m1 EXCEPT ![c] = r2.X]
      r3 == divide(m2, "tmp", c, c, NULL, IF f = 3 THEN 1 ELSE 0)
  IN IF r1.rc # MPI_OK THEN Res(CRYPT_MEM, Free(m1, "tmp"))
     ELSE IF r2.rc # MPI_OK THEN Res(CRYPT_MEM, Free(m2, "tmp"))
     ELSE Res(r3.st, Free(r3.m, "tmp"))

\* ------------------------------------------------ primes and random values

\* the callback handed to the backend: an error only when the generator
\* delivered no byte at all
rng_read(blen, mode) ==
  IF sprng_read(blen, mode) = 0 THEN ERR_FILE_IO_ERROR ELSE MPI_OK

\* the Miller-Rabin rounds ask f_rng for X->n * ciL random bytes
RngAsked(X) == X.v > SmallPrimeMax /\ X.v % 2 = 1 /\ ~SmallFactor(X.v)

\* |X| is prime: 0; it is not: NOT_ACCEPTABLE.  0 and 1, even values and
\* values with a small prime factor are decided without random numbers; the
\* Miller-Rabin rounds on the others allocate and draw random witnesses, and
\* an error of f_rng is returned as it is.
mbedtls_mpi_is_prime(X, mode, oom) ==
  IF X.v <= 1 THEN ERR_NOT_ACCEPTABLE
  ELSE IF X.v = 2 THEN MPI_OK
  ELSE IF X.v % 2 = 0 THEN ERR_NOT_ACCEPTABLE
  ELSE IF X.v <= SmallPrimeMax
  THEN (IF SmallFactor(X.v) THEN ERR_NOT_ACCEPTABLE ELSE MPI_OK)
  ELSE IF SmallFactor(X.v) THEN ERR_NOT_ACCEPTABLE
  ELSE IF oom THEN ERR_ALLOC_FAILED
  ELSE IF rng_read(X.n * ciL, mode) # MPI_OK THEN rng_read(X.n * ciL, mode)
  ELSE IF IsPrime(X.v) THEN MPI_OK ELSE ERR_NOT_ACCEPTABLE

\* X = size bytes from f_rng, read as a big-endian number; buf is the
\* buffer after f_rng returned 0
mbedtls_mpi_fill_random(X, size, mode, buf, oom) ==
  IF size > MPI_MAX_SIZE THEN Ret(ERR_BAD_INPUT_DATA, X)
  ELSE IF rng_read(size, mode) # MPI_OK THEN Ret(rng_read(size, mode), X)
  ELSE mbedtls_mpi_read_binary(X, buf, oom)

\* *c = YES or NO; cin is what *c held before
isprime(m, a, mode, cin, f) ==
  LET res == mbedtls_mpi_is_prime(m[a], mode, f = 1) IN
  IF res = ERR_ALLOC_FAILED THEN ResOut(CRYPT_MEM, m, cin)
  ELSE IF res # MPI_OK THEN ResOut(CRYPT_OK, m, LTC_MP_NO)
  ELSE ResOut(CRYPT_OK, m, LTC_MP_YES)

mpa_rand(m, a, size, mode, buf, f) ==
  LET r == mbedtls_mpi_fill_random(m[a], size, mode, buf, f = 1)
      m1 == [m EXCEPT ![a] = r.X]
  IN IF r.rc # MPI_OK THEN Res(CRYPT_MEM, m1) ELSE Res(CRYPT_OK, m1)

\* ------------------------------------------------------------------ state

VARIABLES
  h,      \* the caller's handles: Handles -> mbedtls_mpi
  ctx,    \* the caller's Montgomery context pointer
  phase,  \* "Uninitialized", "SetUp" or "TornDown"
  live,   \* live allocations: contexts, and temporaries left behind by calls
  cnt,    \* calls made so far
  form,   \* what d and x hold in the Montgomery protocol
  last,   \* the last call: operation, status, failing allocation, state before
  out,    \* the last call's handle choice, small operand, buffer, returned value
  thr     \* two threads: their handles, contexts, positions and temporaries

vars == <<h, ctx, phase, live, cnt, form, last, out, thr>>

\* dst, dst2, src, src2: the handles a call was given as destinations and
\* sources; arg: its small operand or size; rng: what the random source did;
\* buf: the caller's byte buffer; ret: the value returned or stored through a
\* pointer
NoOut ==
  [dst |-> "d", dst2 |-> "x", src |-> "a", src2 |-> "b", arg |-> 0,
   rng |-> "full", buf |-> <<>>, ret |-> 0]

NoCalls == [setup_ok |-> 0, deinit |-> 0, failed_reduce |-> 0, calls |-> 0]

NoForm == [d |-> "none", x |-> "none"]

\* no thread is running: the calls are made by the one caller
NoThreads == [th |-> <<>>, tmp |-> <<>>, mixed |-> FALSE]

Start(hs) ==
  /\ h = hs
  /\ ctx = NullCtx
  /\ phase = "Uninitialized"
  /\ live = [ctx |-> 0, tmp |-> 0]
  /\ cnt = NoCalls
  /\ form = NoForm
  /\ last = [op |-> "none", st |-> CRYPT_OK, f |-> 0, pre |-> hs, prelive |-> 0]
  /\ out = NoOut
  /\ thr = NoThreads

\* a value as set_int or a conversion stores it: in its used digits
Stored(x) == Mpi(x, Used(Abs(x)))

\* bookkeeping common to the calls that work on the handles
CallOut(op, r, f, o) ==
  /\ h' = Exit(r.m)
  /\ live' = [live EXCEPT !.tmp = @ + Cardinality(LiveTemps(r.m))]
  /\ last' = [op |-> op, st |-> r.st, f |-> f, pre |-> h, prelive |-> live.ctx]
  /\ out' = o
  /\ UNCHANGED thr

\* a call on the fixed handles that returns nothing but its status
Call(op, r, f) == CallOut(op, r, f, NoOut)

\* ------------------------------------------- arithmetic: one call per run

ValsA == (-MaxVal)..MaxVal

ValsB == ((-MaxVal)..MaxVal) \cup {13}

ValsN == ((-MaxVal)..MaxVal) \cup {-300, 11, 497, 1009}

Init ==
  \E va \in ValsA, vb \in ValsB, vn \in ValsN :
    Start([c \in Handles |->
             IF c = "a" THEN Stored(va)
             ELSE IF c = "b" THEN Stored(vb)
             ELSE IF c = "n" THEN Stored(vn)
             ELSE MpiInit])

Fresh == cnt.calls = 0 /\ phase = "Uninitialized"

Arith(op, r, f) ==
  /\ Call(op, r, f)
  /\ cnt' = [cnt EXCEPT !.calls = @ + 1]
  /\ UNCHANGED <<ctx, phase, form>>

\* mod(a, n, d)
DoMod ==
  /\ Fresh
  /\ \E f \in 0..1 : Arith("mod", mod(Enter(h), "a", "n", "d", f), f)

\* mul(a, b, d)
DoMul ==
  /\ Fresh
  /\ \E f \in 0..1 : Arith("mul", mul(Enter(h), "a", "b", "d", f), f)

\* mulmod(a, b, n, d)
DoMulMod ==
  /\ Fresh
  /\ \E f \in 0..4 : Arith("mulmod", mulmod(Enter(h), "a", "b", "n", "d", f), f)

\* invmod(a, n, d)
DoInvMod ==
  /\ Fresh
  /\ \E f \in 0..1 : Arith("invmod", invmod(Enter(h), "a", "n", "d", f), f)

\* exptmod(a, b, n, d): base a, exponent b, modulus n
DoExptMod ==
  /\ Fresh
  /\ \E f \in 0..1 : Arith("exptmod", exptmod(Enter(h), "a", "b", "n", "d", f), f)

\* exptmod(a, b, n, dst) with the destination one of the operands; the
\* allocation of the backend call (f = 1) or of the final copy (f = 2) fails
DoExptModAlias ==
  /\ Fresh
  /\ \E dst \in {"a", "b", "n"}, f \in 0..2 :
       /\ CallOut("exptmod_alias", exptmod(Enter(h), "a", "b", "n", dst, f), f,
                  [NoOut EXCEPT !.dst = dst])
       /\ cnt' = [cnt EXCEPT !.calls = @ + 1]
       /\ UNCHANGED <<ctx, phase, form>>

\* a call of the primitive layer: bookkeeping of a single call
Prim(op, r, f, o) ==
  /\ CallOut(op, r, f, o)
  /\ cnt' = [cnt EXCEPT !.calls = @ + 1]
  /\ UNCHANGED <<ctx, phase, form>>

\* the handles that hold the caller's inputs
Sources == {"a", "b", "n"}

\* unsigned_write(src, buf) into a buffer of unsigned_size(src) bytes
DoUnsignedWrite ==
  /\ Fresh
  /\ \E src \in Sources :
       LET r == unsigned_write(Enter(h), src) IN
       Prim("unsigned_write", r, 0,
            [NoOut EXCEPT !.src = src, !.buf = r.o, !.ret = unsigned_size(h[src])])

\* unsigned_read(d, buf, len) of the bytes the write before it produced
DoUnsignedRead ==
  /\ phase = "Uninitialized"
  /\ last.op = "unsigned_write"
  /\ last.st = CRYPT_OK
  /\ \E f \in 0..1 :
       Prim("unsigned_read", unsigned_read(Enter(h), "d", out.buf, f), f, out)

\* small operands: below, at and above the limits of a 31-bit chunk, of
\* uint32_t and of two chunks
SmallOps ==
  {0, 1, 3, Pow2(U32Bits - 1) - 1, Pow2(U32Bits - 1), Pow2(U32Bits - 1) + 1,
   UINT32_MAX, UINT32_MAX + 1, UINT32_MAX + 2, 300, Pow2(2 * (U32Bits - 1))}

\* what the caller's digit variable holds before modi stores into it
PriorDigit == 77

\* set_int(b, v): the destination holds a value before the call
DoSetInt ==
  /\ Fresh
  /\ \E v \in SmallOps, f \in 0..1 :
       Prim("set_int", set_int(Enter(h), "b", v, f), f,
            [NoOut EXCEPT !.dst = "b", !.arg = v])

\* addi(a, v, b)
DoAddI ==
  /\ Fresh
  /\ \E v \in SmallOps, f \in 0..1 :
       Prim("addi", addi(Enter(h), "a", v, "b", f), f,
            [NoOut EXCEPT !.dst = "b", !.arg = v])

\* subi(a, v, b)
DoSubI ==
  /\ Fresh
  /\ \E v \in SmallOps, f \in 0..1 :
       Prim("subi", subi(Enter(h), "a", v, "b", f), f,
            [NoOut EXCEPT !.dst = "b", !.arg = v])

\* muli(a, v, b)
DoMulI ==
  /\ Fresh
  /\ \E v \in SmallOps, f \in 0..1 :
       Prim("muli", muli(Enter(h), "a", v, "b", f), f,
            [NoOut EXCEPT !.dst = "b", !.arg = v])

\* modi(src, v, &c)
DoModI ==
  /\ Fresh
  /\ \E src \in {"a", "n"}, v \in SmallOps, f \in 0..2 :
       LET r == modi(Enter(h), src, v, PriorDigit, f) IN
       Prim("modi", r, f, [NoOut EXCEPT !.src = src, !.arg = v, !.ret = r.o])

\* compare_d(src, v)
DoCompareD ==
  /\ Fresh
  /\ \E src \in Sources, v \in SmallOps :
       LET r == compare_d(Enter(h), src, v) IN
       Prim("compare_d", r, 0, [NoOut EXCEPT !.src = src, !.arg = v, !.ret = r.o])

\* the operand pairs of the two-operand calls
Operands == {<<"a", "b">>, <<"n", "a">>, <<"a", "n">>}

\* the handles named in out
Args(A, B, c, d) == [NoOut EXCEPT !.src = A, !.src2 = B, !.dst = c, !.dst2 = d]

\* neg(src, dst): into the fresh d or into src itself
DoNeg ==
  /\ Fresh
  /\ \E A \in Sources, f \in 0..1 : \E c \in {A, "d"} :
       Prim("neg", neg(Enter(h), A, c, f), f, Args(A, A, c, "x"))

\* add(A, B, dst): into the fresh d or into one of the operands
DoAdd ==
  /\ Fresh
  /\ \E p \in Operands, f \in 0..1 : \E c \in {p[1], p[2], "d"} :
       Prim("add", add(Enter(h), p[1], p[2], c, f), f, Args(p[1], p[2], c, "x"))

\* sub(A, B, dst)
DoSub ==
  /\ Fresh
  /\ \E p \in Operands, f \in 0..1 : \E c \in {p[1], p[2], "d"} :
       Prim("sub", sub(Enter(h), p[1], p[2], c, f), f, Args(p[1], p[2], c, "x"))

\* mul(A, B, dst) with dst one of the operands
DoMulAlias ==
  /\ Fresh
  /\ \E p \in Operands, f \in 0..1 : \E c \in {p[1], p[2]} :
       Prim("mul_alias", mul(Enter(h), p[1], p[2], c, f), f, Args(p[1], p[2], c, "x"))

\* sqr(src, dst)
DoSqr ==
  /\ Fresh
  /\ \E A \in Sources, f \in 0..1 : \E c \in {A, "d"} :
       Prim("sqr", sqr(Enter(h), A, c, f), f, Args(A, A, c, "x"))

\* the destination pairs of divide(A, B, quotient, remainder)
DivDests(A, B) ==
  {<<"d", "x">>, <<A, "x">>, <<B, "x">>, <<"d", A>>, <<"d", B>>, <<A, B>>, <<B, A>>}

\* divide(A, B, q, r)
DoDivide ==
  /\ Fresh
  /\ \E p \in Operands, f \in 0..1 : \E t \in DivDests(p[1], p[2]) :
       Prim("divide", divide(Enter(h), p[1], p[2], t[1], t[2], f), f,
            Args(p[1], p[2], t[1], t[2]))

\* div_2(src, dst)
DoHalf ==
  /\ Fresh
  /\ \E A \in Sources, f \in 0..1 : \E c \in {A, "d"} :
       Prim("div_2", div_2(Enter(h), A, c, f), f, Args(A, A, c, "x"))

\* lcm(A, B, dst): into the fresh d or into one of the operands
DoLcm ==
  /\ Fresh
  /\ \E p \in Operands, f \in 0..3 : \E c \in {p[1], p[2], "d"} :
       Prim("lcm", lcm(Enter(h), p[1], p[2], c, f), f, Args(p[1], p[2], c, "x"))

\* get_int(src)
DoGetInt ==
  /\ Fresh
  /\ \E src \in Sources :
       Prim("get_int", Res(CRYPT_OK, Enter(h)), 0,
            [NoOut EXCEPT !.src = src, !.ret = get_int(h[src])])

\* get_digit(src, i)
DoGetDigit ==
  /\ Fresh
  /\ \E src \in Sources, i \in (-1)..2 :
       Prim("get_digit", Res(CRYPT_OK, Enter(h)), 0,
            [NoOut EXCEPT !.src = src, !.arg = i, !.ret = get_digit(h[src], i)])

\* isprime(src, 0, &c) while the random source behaves as rng
DoIsPrime ==
  /\ Fresh
  /\ \E src \in Sources, rng \in RngModes, f \in 0..1 :
       LET r == isprime(Enter(h), src, rng, PriorDigit, f) IN
       Prim("isprime", r, f, [NoOut EXCEPT !.src = src, !.rng = rng, !.ret = r.o])

\* the largest size passed to rand
MaxRand == 2

\* byte values the buffer can hold after the callback returned
RngBytes == {0, 1, Pow2(CharBits) - 1}

\* rand(b, size) while the random source behaves as rng; buf is the buffer
\* the backend reads: what the source delivered, and the buffer's
\* uninitialised bytes where it delivered less
DoRand ==
  /\ Fresh
  /\ \E size \in 0..MaxRand, rng \in RngModes, f \in 0..1 :
       \E buf \in [1..size -> RngBytes] :
         Prim("rand", mpa_rand(Enter(h), "b", size, rng, buf, f), f,
              [NoOut EXCEPT !.dst = "b", !.arg = size, !.rng = rng, !.buf = buf])

\* init_copy(&p, src): the object the allocator returns is d; out.dst is p
\* after the call and out.ret the live handle allocations the call made
DoInitCopy ==
  /\ Fresh
  /\ \E src \in Sources, f \in 0..2 :
       LET r == init_copy(Enter(h), "d", src, f) IN
       Prim("init_copy", r, f, [NoOut EXCEPT !.src = src, !.dst = r.ptr, !.ret = r.hnd])

\* after an init_copy that returned OK the source or the clone is negated
\* in place
DoNegAfterCopy ==
  /\ phase = "Uninitialized"
  /\ last.op = "init_copy"
  /\ last.st = CRYPT_OK
  /\ \/ Prim("neg_source", neg(Enter(h), out.src, out.src, 0), 0, out)
     \/ Prim("neg_clone", neg(Enter(h), out.dst, out.dst, 0), 0, out)

\* deinit(p) of the handle an init_copy stored, whatever it returned
DoDeinit ==
  /\ phase = "Uninitialized"
  /\ last.op = "init_copy"
  /\ out.dst # NULL
  /\ Prim("deinit", deinit(Enter(h), out.dst), 0, [out EXCEPT !.ret = @ - 1])

\* the backend calls rng_read(NULL, buf, blen) while the random source
\* behaves as rng; out.ret is the number of bytes the source delivered
DoRngRead ==
  /\ Fresh
  /\ \E blen \in 0..MaxRand, rng \in RngModes :
       Prim("rng_read", Res(rng_read(blen, rng), Enter(h)), 0,
            [NoOut EXCEPT !.arg = blen, !.rng = rng, !.ret = sprng_read(blen, rng)])

\* the modular operations with the result stored into one of their inputs
ModOps == {"addmod", "submod", "mulmod", "sqrmod"}

ModAliasName == [addmod |-> "addmod_alias", submod |-> "submod_alias",
                 mulmod |-> "mulmod_alias", sqrmod |-> "sqrmod_alias"]

\* addmod(a, b, n, dst), submod(a, b, n, dst), mulmod(a, b, n, dst) and
\* sqrmod(a, n, dst) with dst one of the handles the call reads
DoModAlias ==
  /\ Fresh
  /\ \E op \in ModOps, dst \in Sources, f \in 0..2 :
       /\ op = "sqrmod" => dst # "b"
       /\ LET m == Enter(h)
              r == IF op = "addmod" THEN addmod(m, "a", "b", "n", dst, f)
                   ELSE IF op = "submod" THEN submod(m, "a", "b", "n", dst, f)
                   ELSE IF op = "mulmod" THEN mulmod(m, "a", "b", "n", dst, f)
                   ELSE sqrmod(m, "a", "n", dst, f)
          IN Prim(ModAliasName[op], r, f, [NoOut EXCEPT !.dst = dst])

Next ==
  \/ DoInitCopy \/ DoNegAfterCopy \/ DoDeinit
  \/ DoModAlias
  \/ DoRngRead
  \/ DoMod \/ DoMul \/ DoMulMod \/ DoInvMod \/ DoExptMod
  \/ DoExptModAlias
  \/ DoUnsignedWrite \/ DoUnsignedRead
  \/ DoSetInt \/ DoAddI \/ DoSubI \/ DoMulI \/ DoModI
  \/ DoCompareD
  \/ DoLcm
  \/ DoGetInt \/ DoGetDigit
  \/ DoIsPrime \/ DoRand
  \/ DoNeg \/ DoAdd \/ DoSub \/ DoMulAlias \/ DoSqr \/ DoDivide \/ DoHalf

Spec == Init /\ [][Next]_vars

\* ------------------------------------------------ the Montgomery protocol

ModSet == (0..MaxMod) \cup {23, 497}

MontInit ==
  \E vn \in ModSet, va \in 0..(MaxMod + 1) :
    Start([c \in Handles |->
             IF c = "n" THEN Stored(vn)
             ELSE IF c = "a" THEN Stored(va)
             ELSE IF c = "b" THEN Stored(3)
             ELSE MpiInit])

Budget == cnt.calls < MaxCalls

\* mul(n, b, n) before the protocol starts: the modulus becomes the product
\* n * 3, which mbedtls_mpi_mul_mpi stores in one digit more than it uses
MontMulN ==
  /\ phase = "Uninitialized"
  /\ cnt.calls = 0
  /\ h["n"].n = Used(h["n"].v)
  /\ \E f \in 0..1 :
       /\ Call("mul", mul(Enter(h), "n", "b", "n", f), f)
       /\ UNCHANGED <<ctx, phase, cnt, form>>

\* montgomery_setup(n, &ctx); the malloc fails when f = 1
MontSetup ==
  /\ phase = "Uninitialized"
  /\ Budget
  /\ \E f \in 0..1 :
       LET r == montgomery_setup(Enter(h), "n", f = 1) IN
       /\ ctx' = r.ctx
       /\ phase' = IF r.st = CRYPT_OK THEN "SetUp" ELSE "Uninitialized"
       /\ live' = [live EXCEPT !.ctx = @ + (IF r.ctx.alloc THEN 1 ELSE 0)]
       /\ cnt' = [cnt EXCEPT !.calls = @ + 1,
                             !.setup_ok = @ + (IF r.st = CRYPT_OK THEN 1 ELSE 0)]
       /\ last' = [op |-> "montgomery_setup", st |-> r.st, f |-> f,
                   pre |-> h, prelive |-> live.ctx]
       /\ UNCHANGED <<h, form, out, thr>>

\* montgomery_normalization(d, n)
MontNormalization ==
  /\ phase = "SetUp"
  /\ Budget
  /\ \E f \in 0..3 :
       LET r == montgomery_normalization(Enter(h), "d", "n", f) IN
       /\ Call("montgomery_normalization", r, f)
       /\ form' = [form EXCEPT !.d = IF r.st = CRYPT_OK THEN "norm" ELSE "none"]
       /\ cnt' = [cnt EXCEPT !.calls = @ + 1]
       /\ UNCHANGED <<ctx, phase>>

\* mulmod(a, d, n, x): a into Montgomery form when d holds the normalization
MontMulMod ==
  /\ phase = "SetUp"
  /\ Budget
  /\ \E f \in 0..4 :
       LET r == mulmod(Enter(h), "a", "d", "n", "x", f) IN
       /\ Call("mulmod", r, f)
       /\ form' = [form EXCEPT !.x = IF r.st = CRYPT_OK /\ form.d = "norm"
                                      THEN "mont" ELSE "none"]
       /\ cnt' = [cnt EXCEPT !.calls = @ + 1]
       /\ UNCHANGED <<ctx, phase>>

\* copy(a, x): x = a, to reduce a itself
MontCopy ==
  /\ phase = "SetUp"
  /\ Budget
  /\ \E f \in 0..1 :
       LET r == copy(Enter(h), "a", "x", f) IN
       /\ Call("copy", r, f)
       /\ form' = [form EXCEPT !.x = IF r.st = CRYPT_OK THEN "copy" ELSE "none"]
       /\ cnt' = [cnt EXCEPT !.calls = @ + 1]
       /\ UNCHANGED <<ctx, phase>>

\* montgomery_reduce(x, n, ctx)
MontReduce ==
  /\ phase = "SetUp"
  /\ Budget
  /\ \E f \in {0, 1, 2, 3, 5} :
       LET r == montgomery_reduce(Enter(h), "x", "n", ctx, f) IN
       /\ Call("montgomery_reduce", r, f)
       /\ form' = [form EXCEPT !.x = IF form.x = "mont" THEN "reduced"
                                      ELSE IF form.x = "copy" THEN "direct"
                                      ELSE "none"]
       /\ cnt' = [cnt EXCEPT !.calls = @ + 1,
                             !.failed_reduce = @ + (IF r.st = CRYPT_OK THEN 0 ELSE 1)]
       /\ UNCHANGED <<ctx, phase>>

\* montgomery_deinit(ctx)
MontDeinit ==
  /\ phase = "SetUp"
  /\ ctx' = montgomery_deinit(ctx)
  /\ phase' = "TornDown"
  /\ live' = [live EXCEPT !.ctx = @ - (IF ctx.alloc THEN 1 ELSE 0)]
  /\ cnt' = [cnt EXCEPT !.deinit = @ + 1]
  /\ last' = [op |-> "montgomery_deinit", st |-> CRYPT_OK, f |-> 0,
              pre |-> h, prelive |-> live.ctx]
  /\ UNCHANGED <<h, form, out, thr>>

MontNext ==
  \/ MontMulN
  \/ MontSetup
  \/ MontNormalization
  \/ MontMulMod
  \/ MontCopy
  \/ MontReduce
  \/ MontDeinit

MontSpec == MontInit /\ [][MontNext]_vars

\* ------------------------------------------------ two calling threads

\* operations each thread may run
MaxThreadOps == 2

ThreadIds == {1, 2}

ThreadOps == {"add", "mulmod", "montgomery_reduce"}

\* temporaries held by one static object shared by every caller
TempOwner_static(t) == 0

\* ta, tb, A and T are automatic variables: they live on the calling
\* thread's stack
TempOwner(t) == t

Idle == [op |-> "idle", k |-> 0]

NoTemps == [l \in Locals |-> MpiInit]

\* the store a thread's call works on: its own handles and its temporaries
Work(t) ==
  [c \in Handles \cup Locals |->
     IF c \in Handles THEN thr.th[t].h[c] ELSE thr.tmp[TempOwner(t)][c]]

\* one step's outcome: the store, the next position and the status so far
StepRes(m, k, st) == [m |-> m, k |-> k, st |-> st]

Done == 99

\* mulmod(a, b, n, d), one statement at a time
MulModStep(m, k) ==
  IF k = 0 THEN StepRes(Free(Free(m, "ta"), "tb"), 1, CRYPT_OK)
  ELSE IF k = 1 THEN LET r == mod(m, "a", "n", "ta", 0)
                     IN StepRes(r.m, IF r.st = CRYPT_OK THEN 2 ELSE 5, r.st)
  ELSE IF k = 2 THEN LET r == mod(m, "b", "n", "tb", 0)
                     IN StepRes(r.m, IF r.st = CRYPT_OK THEN 3 ELSE 5, r.st)
  ELSE IF k = 3 THEN LET r == mul(m, "ta", "tb", "d", 0)
                     IN StepRes(r.m, IF r.st = CRYPT_OK THEN 4 ELSE 5, r.st)
  ELSE IF k = 4 THEN LET r == mod(m, "d", "n", "d", 0)
                     IN StepRes(r.m, 5, r.st)
  ELSE StepRes(Free(Free(m, "ta"), "tb"), Done, CRYPT_OK)

\* montgomery_reduce(d, n, ctx), one statement at a time
ReduceStep(m, k, c) ==
  LET N == m["n"]
      Go(r, l, nxt) == StepRes([m EXCEPT ![l] = r.X],
                               IF r.rc = MPI_OK THEN nxt ELSE 6,
                               IF r.rc = MPI_OK THEN CRYPT_OK ELSE CRYPT_MEM)
  IN IF k = 0 THEN StepRes(Free(Free(m, "T"), "A"), 1, CRYPT_OK)
     ELSE IF k = 1 THEN Go(mbedtls_mpi_grow(m["T"], (N.n + 1) * 2, FALSE), "T", 2)
     ELSE IF k = 2 THEN
       Go(IF mbedtls_mpi_cmp_mpi(m["d"], N) > 0
          THEN mbedtls_mpi_mod_mpi(m["A"], m["d"], N, FALSE)
          ELSE mbedtls_mpi_copy(m["A"], m["d"], FALSE), "A", 3)
     ELSE IF k = 3 THEN Go(mbedtls_mpi_grow(m["A"], N.n + 1, FALSE), "A", 4)
     ELSE IF k = 4 THEN Go(mpi_montred(m["A"], N, c.mm, m["T"]), "A", 5)
     ELSE IF k = 5 THEN Go(mbedtls_mpi_copy(m["d"], m["A"], FALSE), "d", 6)
     ELSE StepRes(Free(Free(m, "A"), "T"), Done, CRYPT_OK)

\* add(a, b, a) is one backend call
AddStep(m, k) ==
  LET r == add(m, "a", "b", "a", 0) IN StepRes(r.m, Done, r.st)

StepOf(op, m, k, c) ==
  IF op = "mulmod" THEN MulModStep(m, k)
  ELSE IF op = "montgomery_reduce" THEN ReduceStep(m, k, c)
  ELSE AddStep(m, k)

\* the same operation as one call of the adapter
Whole(op, m, c) ==
  IF op = "mulmod" THEN mulmod(m, "a", "b", "n", "d", 0)
  ELSE IF op = "montgomery_reduce" THEN montgomery_reduce(m, "d", "n", c, 0)
  ELSE add(m, "a", "b", "a", 0)

\* the handles after the operations of ops run alone, one after the other
RECURSIVE Alone(_, _, _)
Alone(hs, ops, c) ==
  IF ops = <<>> THEN hs
  ELSE Alone(Exit(Whole(Head(ops), Enter(hs), c).m), Tail(ops), c)

\* each thread owns its handles and the context set up for its modulus
ThreadStart(va, vb, vn) ==
  LET hs == [c \in Handles |->
               IF c = "a" THEN Stored(va)
               ELSE IF c = "b" THEN Stored(vb)
               ELSE IF c = "n" THEN Stored(vn)
               ELSE MpiInit]
  IN [h |-> hs, h0 |-> hs, ctx |-> montgomery_setup(Enter(hs), "n", FALSE).ctx,
      pc |-> Idle, hist |-> <<>>]

ThreadModuli == <<{9, 23}, {11, 497}>>

ThreadInit ==
  /\ h = [c \in Handles |-> MpiInit]
  /\ ctx = NullCtx
  /\ phase = "Uninitialized"
  /\ live = [ctx |-> 0, tmp |-> 0]
  /\ cnt = NoCalls
  /\ form = NoForm
  /\ last = [op |-> "none", st |-> CRYPT_OK, f |-> 0, pre |-> h, prelive |-> 0]
  /\ out = NoOut
  /\ \E n1 \in ThreadModuli[1], n2 \in ThreadModuli[2] :
       thr = [th |-> <<ThreadStart(5, 7, n1), ThreadStart(4, 3, n2)>>,
              tmp |-> [o \in 0..2 |-> NoTemps],
              mixed |-> FALSE]

\* a thread enters one of the operations
ThreadBegin(t) ==
  /\ thr.th[t].pc = Idle
  /\ Len(thr.th[t].hist) < MaxThreadOps
  /\ \E op \in ThreadOps :
       thr' = [thr EXCEPT !.th[t].pc = [op |-> op, k |-> 0],
                          !.th[t].hist = Append(@, op)]
  /\ UNCHANGED <<h, ctx, phase, live, cnt, form, last, out>>

\* a thread executes the next statement of the operation it is in
ThreadStep(t) ==
  /\ thr.th[t].pc # Idle
  /\ LET me == thr.th[t]
         r  == StepOf(me.pc.op, Work(t), me.pc.k, me.ctx)
     IN thr' = [thr EXCEPT
                  !.th[t].h = Exit(r.m),
                  !.th[t].pc = IF r.k = Done THEN Idle ELSE [op |-> me.pc.op, k |-> r.k],
                  !.tmp[TempOwner(t)] = [l \in Locals |-> r.m[l]],
                  !.mixed = @ \/ thr.th[3 - t].pc # Idle]
  /\ UNCHANGED <<h, ctx, phase, live, cnt, form, last, out>>

ThreadNext ==
  \/ \E t \in ThreadIds : ThreadBegin(t)
  \/ \E t \in ThreadIds : ThreadStep(t)

ThreadSpec == ThreadInit /\ [][ThreadNext]_vars

\* ------------------------------------------------------------------ claims

\* the operands of the last call, as values before the call
PreA == Val(last.pre["a"])

PreB == Val(last.pre["b"])

PreN == Val(last.pre["n"])

PreX == Val(last.pre["x"])

\* the R the specification names for modulus N: 2^(ceil(bitlen(N)/w) * w)
SpecR(N) == Pow2(CeilDiv(BitLen(N), biL) * biL)

OddModulus == Val(h["n"]) > 1 /\ Val(h["n"]) % 2 = 1

\* C1: Montgomery round trip.  For odd n > 1 and 0 <= a < n, after a
\* successful setup(n), r = normalization(n) and x = mulmod(a, r, n), the
\* call montgomery_reduce(x, n, ctx) succeeds (no allocation failing) and
\* leaves x equal to a.
C1_RoundTrip ==
  ( /\ last.op = "montgomery_reduce"
    /\ form.x = "reduced"
    /\ last.f = 0
    /\ OddModulus
    /\ Val(h["a"]) >= 0 /\ Val(h["a"]) < Val(h["n"]) )
  => (last.st = CRYPT_OK /\ Val(h["x"]) = Val(h["a"]))

\* C1 restricted to the moduli stored in exactly their used digits
C1_RoundTripTrimmed ==
  h["n"].n = Used(h["n"].v) => C1_RoundTrip

\* C2: for odd N > 1 and every a >= 0 (a == N and a > N included), a
\* successful montgomery_reduce(a, N, ctx) leaves the value in [0, N)
\* congruent to a * R^-1 mod N, with R = 2^(ceil(bitlen(N)/w) * w).
C2_ReduceValue ==
  ( /\ last.op = "montgomery_reduce"
    /\ last.f = 0
    /\ OddModulus
    /\ PreX >= 0 )
  => ( /\ last.st = CRYPT_OK
       /\ Val(h["x"]) >= 0 /\ Val(h["x"]) < Val(h["n"])
       /\ (Val(h["x"]) * SpecR(Val(h["n"]))) % Val(h["n"]) = PreX % Val(h["n"]) )

\* C2 restricted to the moduli stored in exactly their used digits
C2_ReduceValueTrimmed ==
  h["n"].n = Used(h["n"].v) => C2_ReduceValue

\* C3: for N > 0 a successful montgomery_normalization(dst, N) sets dst to
\* 2^(ceil(bitlen(N)/w) * w) mod N, and for every N the shift count derived
\* from the byte size of N rounded up to whole digits is ceil(bitlen(N)/w) * w.
C3_Normalization ==
  /\ NormShift(h["n"]) = CeilDiv(BitLen(h["n"].v), biL) * biL
  /\ ( ( /\ last.op = "montgomery_normalization"
         /\ Val(h["n"]) > 0 )
       => ( /\ (last.f = 0 => last.st = CRYPT_OK)
            /\ (last.st = CRYPT_OK =>
                  Val(h["d"]) = SpecR(Val(h["n"])) % Val(h["n"])) ) )

\* a normalization succeeded for a modulus whose byte size is not a whole
\* number of digits, with a result other than 0 and 1
C3_Witness ==
  /\ last.op = "montgomery_normalization"
  /\ last.st = CRYPT_OK
  /\ mbedtls_mpi_size(h["n"]) % ciL # 0
  /\ Val(h["d"]) > 1

\* C4: for odd N a successful montgomery_setup binds a context holding one
\* digit mm with N * mm = -1 modulo 2^w; when the allocation fails it
\* returns MEMORY and binds no context.
C4_Setup ==
  ( /\ last.op = "montgomery_setup"
    /\ Val(h["n"]) % 2 = 1 )
  => ( /\ (last.f = 0 => last.st = CRYPT_OK)
       /\ (last.st = CRYPT_OK =>
             /\ ctx.alloc
             /\ ctx.mm \in 0..(Base - 1)
             /\ (h["n"].v * ctx.mm) % Base = Base - 1)
       /\ (last.f = 1 =>
             /\ last.st = CRYPT_MEM
             /\ ~ctx.alloc
             /\ phase = "Uninitialized") )

\* a setup succeeded for an odd modulus of more than one digit
C4_Witness ==
  /\ last.op = "montgomery_setup"
  /\ last.st = CRYPT_OK
  /\ Val(h["n"]) % 2 = 1
  /\ Limbs(h["n"].v) > 1
  /\ ctx.alloc

\* C5: in every run setup -> {normalization, reduce}* -> deinit the live
\* context allocations equal the successful setups minus the deinits,
\* normalization and reduce leave the context allocation alone, and after the
\* deinit neither a context nor a temporary of the subsystem is live.
C5_Lifecycle ==
  /\ live.ctx = cnt.setup_ok - cnt.deinit
  /\ live.ctx = (IF ctx.alloc THEN 1 ELSE 0)
  /\ (last.op \in {"montgomery_normalization", "montgomery_reduce"}
        => live.ctx = last.prelive /\ ctx.alloc)
  /\ (phase = "TornDown" => live.ctx = 0 /\ live.tmp = 0)
  /\ live.tmp = 0

\* a run was torn down after a reduce that failed on an allocation
C5_Witness ==
  /\ phase = "TornDown"
  /\ cnt.setup_ok = 1 /\ cnt.deinit = 1
  /\ cnt.failed_reduce >= 1

\* the status and value of mul(a, b) followed by mod(product, n), on the
\* state before the last call
MulThenMod ==
  LET r1 == mul(Enter(last.pre), "a", "b", "x", 0)
      r2 == mod(r1.m, "x", "n", "x", 0)
  IN IF r1.st # CRYPT_OK THEN r1 ELSE r2

\* C6: for a, b of either sign and n != 0, mulmod(a, b, n) returns the same
\* status and, on success, the same value as mul(a, b) followed by
\* mod(product, n).
C6_MulMod ==
  ( /\ last.op = "mulmod"
    /\ last.f = 0
    /\ PreN # 0 )
  => ( /\ last.st = MulThenMod.st
       /\ (last.st = CRYPT_OK => Val(h["d"]) = Val(MulThenMod.m["x"])) )

\* a mulmod succeeded on a negative a whose product with b exceeds n
C6_Witness ==
  /\ last.op = "mulmod"
  /\ last.st = CRYPT_OK
  /\ PreA < 0 /\ PreB > 1 /\ PreN > 1
  /\ PreA * PreB < -PreN
  /\ Val(h["d"]) > 0

\* mulmod(a, i, n) on the state after the last call, i being its result d
MulModOfResult == mulmod(Enter(h), "a", "d", "n", "x", 0)

\* C7 as stated: whenever gcd(a, n) = 1 (n = 1 included) invmod(a, n)
\* succeeds with some i and mulmod(a, i, n) returns exactly 1.
C7_InvModAnyModulus ==
  ( /\ last.op = "invmod"
    /\ last.f = 0
    /\ Gcd(PreA, PreN) = 1 )
  => ( /\ last.st = CRYPT_OK
       /\ MulModOfResult.st = CRYPT_OK
       /\ Val(MulModOfResult.m["x"]) = 1 )

\* C7 amended: for n > 1 and gcd(a, n) = 1 invmod(a, n) succeeds with some
\* i in [0, n) and mulmod(a, i, n) returns exactly 1; for n <= 1 invmod
\* returns the GENERIC error.
C7_InvMod ==
  ( /\ last.op = "invmod"
    /\ last.f = 0 )
  => ( /\ ( (PreN > 1 /\ Gcd(PreA, PreN) = 1)
            => ( /\ last.st = CRYPT_OK
                 /\ Val(h["d"]) >= 0 /\ Val(h["d"]) < PreN
                 /\ MulModOfResult.st = CRYPT_OK
                 /\ Val(MulModOfResult.m["x"]) = 1 ) )
       /\ (PreN <= 1 => last.st = CRYPT_ERROR) )

\* an invmod succeeded on a negative a with an inverse other than 1
C7_Witness ==
  /\ last.op = "invmod"
  /\ last.st = CRYPT_OK
  /\ PreA < -1
  /\ Val(h["d"]) > 1
  /\ Val(MulModOfResult.m["x"]) = 1

\* C8: whenever gcd(a, n) != 1 invmod(a, n) does not return OK, and returns
\* GENERIC unless an allocation failed (as for invmod(2, 4)); invmod(3, 11)
\* succeeds with the value 4.
C8_InvModError ==
  last.op = "invmod"
  => ( /\ (Gcd(PreA, PreN) # 1 =>
             /\ last.st # CRYPT_OK
             /\ (last.st = CRYPT_MEM => last.f # 0)
             /\ (last.f = 0 => last.st = CRYPT_ERROR))
       /\ ( (PreA = 3 /\ PreN = 11 /\ last.f = 0)
            => (last.st = CRYPT_OK /\ Val(h["d"]) = 4) ) )

\* invmod(2, 4) returned the GENERIC error
C8_Witness ==
  /\ last.op = "invmod"
  /\ PreA = 2 /\ PreN = 4
  /\ last.f = 0
  /\ last.st = CRYPT_ERROR

\* C9 as stated: for a of either sign and n != 0 of either sign mod(a, n)
\* succeeds with the r in [0, |n|) congruent to a modulo |n|.
C9_ModAnySign ==
  ( /\ last.op = "mod"
    /\ last.f = 0
    /\ PreN # 0 )
  => ( /\ last.st = CRYPT_OK
       /\ Val(h["d"]) >= 0 /\ Val(h["d"]) < Abs(PreN)
       /\ (Val(h["d"]) - PreA) % Abs(PreN) = 0 )

\* C9 amended: for a of either sign and n > 0 mod(a, n) succeeds with the r
\* in [0, n) congruent to a modulo n, never negative; for n < 0 it returns
\* the GENERIC error.
C9_Mod ==
  ( /\ last.op = "mod"
    /\ last.f = 0 )
  => ( /\ ( PreN > 0
            => ( /\ last.st = CRYPT_OK
                 /\ Val(h["d"]) >= 0 /\ Val(h["d"]) < PreN
                 /\ (Val(h["d"]) - PreA) % PreN = 0 ) )
       /\ (PreN < 0 => last.st = CRYPT_ERROR) )

\* a mod succeeded on a negative a that n does not divide
C9_Witness ==
  /\ last.op = "mod"
  /\ last.st = CRYPT_OK
  /\ PreA < 0 /\ PreN > 1
  /\ Val(h["d"]) > 0

\* b^e for e >= 0
Power(b, e) == IF e = 0 THEN 1 ELSE b ^ e

\* C10: for base >= 0, exponent >= 0 and modulus > 1 exptmod succeeds and
\* returns base^exponent mod modulus, in [0, modulus); exptmod(4, 13, 497)
\* returns 445.
C10_ExptMod ==
  ( /\ last.op = "exptmod"
    /\ last.f = 0
    /\ PreA >= 0 /\ PreB >= 0 /\ PreN > 1 )
  => ( /\ last.st = CRYPT_OK
       /\ Val(h["d"]) = Power(PreA, PreB) % PreN
       /\ ( (PreA = 4 /\ PreB = 13 /\ PreN = 497) => Val(h["d"]) = 445 ) )

\* C10 restricted to the odd moduli
C10_ExptModOdd ==
  PreN % 2 = 1 => C10_ExptMod

\* ------------------------------------------------------------ aliasing

\* exptmod into the fresh destination d followed by copy(d, dst)
ExptModThenCopy(hs, dst) ==
  LET r == exptmod(Enter(hs), "a", "b", "n", "d", 0)
  IN IF r.st = CRYPT_OK THEN copy(r.m, "d", dst, 0) ELSE r

\* the status and the destination's value agree with exptmod into a fresh
\* destination followed by a copy
C11_AliasValue ==
  (last.op = "exptmod_alias" /\ last.f = 0)
  => LET r == ExptModThenCopy(last.pre, out.dst)
     IN /\ last.st = r.st
        /\ Val(h[out.dst]) = Val(r.m[out.dst])

\* C11: exptmod with the destination being the base, the exponent or the
\* modulus returns the status and leaves the value that exptmod into a fresh
\* destination followed by a copy gives, and a failed call leaves the
\* aliased destination with the value it had.
C11_ExptModAlias ==
  /\ C11_AliasValue
  /\ (last.op = "exptmod_alias" /\ last.st # CRYPT_OK)
     => Val(h[out.dst]) = Val(last.pre[out.dst])

\* a failed aliased call whose destination changed
C11_FailedChanged ==
  /\ last.op = "exptmod_alias"
  /\ last.st # CRYPT_OK
  /\ Val(h[out.dst]) # Val(last.pre[out.dst])

AliasOps == {"neg", "add", "sub", "mul_alias", "sqr", "divide", "div_2"}

\* the call op on operands A and B with the fresh destinations d and x
FreshCall(op, m, A, B) ==
  CASE op = "neg" -> neg(m, A, "d", 0)
    [] op = "add" -> add(m, A, B, "d", 0)
    [] op = "sub" -> sub(m, A, B, "d", 0)
    [] op = "mul_alias" -> mul(m, A, B, "d", 0)
    [] op = "sqr" -> sqr(m, A, "d", 0)
    [] op = "divide" -> divide(m, A, B, "d", "x", 0)
    [] op = "div_2" -> div_2(m, A, "d", 0)

\* a destination of the last call is one of its operands
Aliased ==
  \/ out.dst \in {out.src, out.src2}
  \/ last.op = "divide" /\ out.dst2 \in {out.src, out.src2}

\* status and destination values agree with the call into fresh destinations
SameAsFresh ==
  LET r == FreshCall(last.op, Enter(last.pre), out.src, out.src2)
  IN /\ last.st = r.st
     /\ r.st = CRYPT_OK
        => /\ Val(h[out.dst]) = Val(r.m["d"])
           /\ last.op = "divide" => Val(h[out.dst2]) = Val(r.m["x"])

\* C17: neg, add, sub, mul, sqr, div and div_2 with a destination that is
\* the handle of an operand return the status and leave the values that the
\* same call with fresh destinations gives.
C17_DestAlias ==
  (last.op \in AliasOps /\ last.f = 0 /\ Aliased) => SameAsFresh

\* the same without the divisions whose quotient goes to an operand
C17_DestAliasButQuotient ==
  ( /\ last.op \in AliasOps
    /\ last.f = 0
    /\ Aliased
    /\ last.op = "divide" => out.dst \notin {out.src, out.src2} )
  => SameAsFresh

\* -4 has been divided by 3 with the quotient going to the dividend's
\* handle, which now holds +1
C17_QuotientSignLost ==
  /\ last.op = "divide"
  /\ last.st = CRYPT_OK
  /\ out.dst = out.src
  /\ Val(last.pre[out.src]) = -4
  /\ Val(last.pre[out.src2]) = 3
  /\ Val(h[out.dst]) = 1

\* ------------------------------------------------------ byte strings

\* C12: unsigned_write emits exactly unsigned_size(a) bytes, the magnitude
\* of a most significant byte first with no leading zero byte, and
\* unsigned_read of those bytes gives the non-negative integer |a|.
C12_UnsignedRoundTrip ==
  LET a == Abs(Val(h[out.src]))
      k == Len(out.buf)
  IN /\ last.op = "unsigned_write"
        => /\ last.st = CRYPT_OK
           /\ k = out.ret
           /\ (a = 0) = (k = 0)
           /\ k > 0 => (out.buf[1] # 0 /\ a < Pow2(CharBits * k))
           /\ \A i \in 1..k :
                out.buf[i] = (a \div Pow2(CharBits * (k - i))) % Pow2(CharBits)
     /\ (last.op = "unsigned_read" /\ last.f = 0)
        => /\ last.st = CRYPT_OK
           /\ h["d"].s = 1
           /\ Val(h["d"]) = a

\* -300 has been written as the three bytes 1, 2, 12 and read back as 300
C12_Witness ==
  /\ last.op = "unsigned_read"
  /\ last.st = CRYPT_OK
  /\ Val(h[out.src]) = -300
  /\ out.buf = <<1, 2, 12>>
  /\ Val(h["d"]) = 300

\* ------------------------------------------------------ small operands

SmallOperandOps == {"set_int", "addi", "subi", "muli", "modi"}

\* C13: set_int, addi, subi, muli and modi return INVALID_ARGUMENT for a
\* small operand above 2^32 - 1 and leave every handle and the digit
\* destination as they were; for an operand of at most 2^32 - 1 they never
\* return INVALID_ARGUMENT.
C13_SmallOperand ==
  last.op \in SmallOperandOps
  => /\ out.arg > UINT32_MAX
        => /\ last.st = CRYPT_INVALID_ARG
           /\ h = last.pre
           /\ live.tmp = 0
           /\ last.op = "modi" => out.ret = PriorDigit
     /\ out.arg <= UINT32_MAX => last.st # CRYPT_INVALID_ARG

\* addi with the operand 2^32 has been refused
C13_Witness ==
  /\ last.op = "addi"
  /\ out.arg = UINT32_MAX + 1
  /\ last.st = CRYPT_INVALID_ARG
  /\ Val(last.pre["a"]) # 0

\* ---------------------------------------------------------- comparison

\* LESS, EQUAL or GREATER as x < y, x = y or x > y
Order(x, y) == IF x < y THEN LTC_MP_LT ELSE IF x > y THEN LTC_MP_GT ELSE LTC_MP_EQ

\* C14: compare_d(a, d) returns LESS, EQUAL or GREATER as a < d, a = d or
\* a > d, for every digit value d, those of more than one 31-bit chunk
\* included.
C14_CompareD ==
  last.op = "compare_d" => out.ret = Order(Val(h[out.src]), out.arg)

\* the same for the digit values of a single chunk, d < 2^31
C14_CompareDOneChunk ==
  (last.op = "compare_d" /\ out.arg < Pow2(U32Bits - 1))
  => out.ret = Order(Val(h[out.src]), out.arg)

\* 1 has been compared with 2^31 and found equal
C14_OneEqualsTwoTo31 ==
  /\ last.op = "compare_d"
  /\ Val(h[out.src]) = 1
  /\ out.arg = Pow2(U32Bits - 1)
  /\ out.ret = LTC_MP_EQ

\* ------------------------------------------------------------- division

\* the quotient destination is not one of the operands
QuotientApart == out.dst # out.src /\ out.dst # out.src2

\* a = q * b + r and |r| < |b| after a successful div(a, b), whatever the
\* destinations
C15_DivideAnyDest ==
  (last.op = "divide" /\ last.f = 0 /\ Val(last.pre[out.src2]) # 0)
  => /\ last.st = CRYPT_OK
     /\ Val(last.pre[out.src]) =
          Val(h[out.dst]) * Val(last.pre[out.src2]) + Val(h[out.dst2])
     /\ Abs(Val(h[out.dst2])) < Abs(Val(last.pre[out.src2]))

\* C15: for b # 0 div(a, b) succeeds with a = q * b + r and |r| < |b|
\* (the quotient going to a handle of its own); for b = 0 it returns the
\* GENERIC error and leaves the quotient and the remainder destinations, an
\* operand's handle or not, as they were.
C15_Divide ==
  last.op = "divide"
  => LET a == Val(last.pre[out.src])
         b == Val(last.pre[out.src2])
         q == Val(h[out.dst])
         r == Val(h[out.dst2])
     IN /\ (b # 0 /\ last.f = 0 /\ QuotientApart)
           => /\ last.st = CRYPT_OK
              /\ a = q * b + r
              /\ Abs(r) < Abs(b)
        /\ b = 0
           => /\ last.st = CRYPT_ERROR
              /\ h = last.pre

\* 497 has been divided by -3 into the quotient -165 and the remainder 2
C15_Witness ==
  /\ last.op = "divide"
  /\ last.st = CRYPT_OK
  /\ Val(last.pre[out.src]) = 497
  /\ Val(last.pre[out.src2]) = -3
  /\ Val(h[out.dst]) = -165
  /\ Val(h[out.dst2]) = 2
  /\ QuotientApart

\* ------------------------------------------------------------------ lcm

\* c * gcd(a, b) = a * b after a successful lcm(a, b), for a and b both
\* non-zero, whether the destination is an operand or not
C16_LcmNonZero ==
  ( /\ last.op = "lcm"
    /\ last.f = 0
    /\ Val(last.pre[out.src]) # 0
    /\ Val(last.pre[out.src2]) # 0 )
  => /\ last.st = CRYPT_OK
     /\ Val(h[out.dst]) * Gcd(Val(last.pre[out.src]), Val(last.pre[out.src2]))
          = Val(last.pre[out.src]) * Val(last.pre[out.src2])

\* C16: for a and b not both zero lcm(a, b) succeeds with c * gcd(a, b) =
\* a * b, also when the destination is the handle of a or of b; for a = b = 0
\* it returns an error; the temporary is released on every exit path.
C16_Lcm ==
  last.op = "lcm"
  => LET a == Val(last.pre[out.src])
         b == Val(last.pre[out.src2])
     IN /\ ((a # 0 \/ b # 0) /\ last.f = 0)
           => /\ last.st = CRYPT_OK
              /\ Val(h[out.dst]) * Gcd(a, b) = a * b
        /\ (a = 0 /\ b = 0) => last.st # CRYPT_OK
        /\ live.tmp = 0

\* lcm(3, 0) has returned the GENERIC error
C16_LcmOfZeroFails ==
  /\ last.op = "lcm"
  /\ last.f = 0
  /\ Val(last.pre[out.src]) = 3
  /\ Val(last.pre[out.src2]) = 0
  /\ last.st = CRYPT_ERROR

\* --------------------------------------------------------------- digits

\* C18: get_int returns 0 for a zero magnitude and otherwise the least
\* significant digit, so that get_int(a) = get_digit(a, 0), however many
\* digits a holds.
C18_GetInt ==
  last.op = "get_int"
  => /\ out.ret = h[out.src].v % Base
     /\ out.ret = get_digit(h[out.src], 0)

\* the same for the values stored in a single digit
C18_GetIntOneDigit ==
  (last.op = "get_int" /\ h[out.src].n <= 1)
  => /\ out.ret = h[out.src].v % Base
     /\ out.ret = get_digit(h[out.src], 0)

\* get_int of a two-digit value has returned its top digit
C18_TopDigit ==
  /\ last.op = "get_int"
  /\ h[out.src].n = 2
  /\ out.ret = h[out.src].v \div Base
  /\ out.ret # h[out.src].v % Base

\* ---------------------------------------------------- the random source

\* the generator delivered fewer bytes than the backend asked for
RngFailed(blen) == sprng_read(blen, out.rng) < blen

\* C19: when the random source fails during isprime, isprime does not
\* return OK with a verdict; it returns an error, and not the MEMORY error of
\* a failed allocation.
C19_IsPrimeRngFailure ==
  ( /\ last.op = "isprime"
    /\ last.f = 0
    /\ RngAsked(h[out.src])
    /\ RngFailed(h[out.src].n * ciL) )
  => /\ last.st # CRYPT_OK
     /\ last.st # CRYPT_MEM

\* with a random source that delivers every byte the verdict is YES for the
\* primes and NO for the others, with status OK
C19_IsPrimeVerdict ==
  (last.op = "isprime" /\ last.f = 0 /\ out.rng = "full")
  => /\ last.st = CRYPT_OK
     /\ out.ret = IF IsPrime(h[out.src].v) THEN LTC_MP_YES ELSE LTC_MP_NO

\* the prime 1009 has been reported as NO with status OK, the random source
\* having delivered nothing
C19_PrimeReportedNo ==
  /\ last.op = "isprime"
  /\ out.rng = "none"
  /\ Val(h[out.src]) = 1009
  /\ last.st = CRYPT_OK
  /\ out.ret = LTC_MP_NO

\* C20: a successful rand(a, k) leaves 0 <= a < 2^k, and rand returns MEMORY
\* when the random source fails.
C20_Rand ==
  last.op = "rand"
  => /\ last.st = CRYPT_OK
        => /\ h[out.dst].s = 1
           /\ Val(h[out.dst]) < Pow2(out.arg)
     /\ (last.f = 0 /\ RngFailed(out.arg)) => last.st = CRYPT_MEM

\* a successful rand(a, k) leaves 0 <= a < 2^(8k), k counting bytes, and rand
\* returns MEMORY when the random source delivers no byte
C20_RandBytes ==
  last.op = "rand"
  => /\ last.st = CRYPT_OK
        => /\ h[out.dst].s = 1
           /\ Val(h[out.dst]) < Pow2(CharBits * out.arg)
           /\ Val(h[out.dst]) = FromBytes(out.buf)
     /\ sprng_read(out.arg, out.rng) = 0 => last.st = CRYPT_MEM

\* rand(a, 1) has left a = 2^8 - 1, the largest byte, in a
C20_RandOneIsByte ==
  /\ last.op = "rand"
  /\ last.st = CRYPT_OK
  /\ out.arg = 1
  /\ Val(h[out.dst]) = Pow2(CharBits) - 1

\* ----------------------------------------------------- error translation

\* the backend refuses the input of the last call: a modulus that is zero
\* or negative (even, for exptmod), a zero divisor, a negative exponent, an
\* operand without an inverse
InputRefused ==
  \/ last.op \in {"mod", "mulmod"} /\ PreN <= 0
  \/ last.op = "invmod" /\ (PreN <= 1 \/ Gcd(PreA, PreN) # 1)
  \/ last.op \in {"exptmod", "exptmod_alias"} /\ (PreN <= 0 \/ PreN % 2 = 0 \/ PreB < 0)
  \/ last.op = "divide" /\ Val(last.pre[out.src2]) = 0
  \/ last.op = "lcm" /\ Val(last.pre[out.src]) = 0 /\ Val(last.pre[out.src2]) = 0
  \/ last.op = "modi" /\ out.arg = 0

\* the calls whose MEMORY status the interface also uses for a failed
\* random source
UsesRng == last.op = "rand"

\* C21: MEMORY is returned only when a backend allocation failed, and a
\* backend failure caused by the input is returned as GENERIC, never as
\* MEMORY and never as OK.
C21_ErrorTranslation ==
  /\ (last.f = 0 /\ ~UsesRng) => last.st # CRYPT_MEM
  /\ (last.f = 0 /\ InputRefused) => last.st = CRYPT_ERROR

\* the same for the calls that translate the backend's return value case
\* by case: mod, mulmod, invmod and divide
C21_TranslatedByCase ==
  (last.op \in {"mod", "mulmod", "invmod", "divide"} /\ last.f = 0)
  => /\ last.st # CRYPT_MEM
     /\ InputRefused => last.st = CRYPT_ERROR

\* exptmod with the negative exponent -1 has returned MEMORY though no
\* allocation failed
C21_NegativeExponentIsMemory ==
  /\ last.op = "exptmod"
  /\ last.f = 0
  /\ PreB = -1
  /\ PreN = 11
  /\ last.st = CRYPT_MEM

\* under MontSpec: normalization and reduce return MEMORY only when an
\* allocation failed
C21_MontgomeryMemory ==
  (last.op \in {"montgomery_normalization", "montgomery_reduce"} /\ last.f = 0)
  => last.st # CRYPT_MEM

\* ----------------------------------------------------------- sign of zero

\* C22: after successful operations every integer of magnitude zero has the
\* sign +1; neg of zero and half of -1 leave such a zero.
C22_SignOfZero ==
  last.st = CRYPT_OK => \A c \in Handles : h[c].v = 0 => h[c].s = 1

\* the same for the calls that are not neg, div_2, add, addi, sub, mul or
\* muli
C22_SignOfZeroElsewhere ==
  (last.st = CRYPT_OK /\
   last.op \notin {"neg", "div_2", "add", "addi", "sub", "mul", "mul_alias", "muli"})
  => \A c \in Handles : h[c].v = 0 => h[c].s = 1

\* neg of zero has left a zero of sign -1
C22_NegatedZero ==
  /\ last.op = "neg"
  /\ last.st = CRYPT_OK
  /\ Val(last.pre[out.src]) = 0
  /\ h[out.dst] = [s |-> -1, n |-> 1, v |-> 0]

\* half of -1 has left a zero of sign -1
C22_HalvedMinusOne ==
  /\ last.op = "div_2"
  /\ last.st = CRYPT_OK
  /\ Val(last.pre[out.src]) = -1
  /\ h[out.dst].v = 0
  /\ h[out.dst].s = -1

\* C23: two threads running operations on disjoint handles and distinct
\* contexts do not interfere: whenever a thread is between operations, its
\* handles hold what its operations so far produce when they run alone, in
\* every interleaving with the other thread's statements.
C23_NoInterference ==
  \A t \in DOMAIN thr.th :
    thr.th[t].pc = Idle =>
      thr.th[t].h = Alone(thr.th[t].h0, thr.th[t].hist, thr.th[t].ctx)

\* both threads were inside mulmod and montgomery_reduce at the same time and
\* have finished them
C23_Witness ==
  /\ thr.mixed
  /\ \A t \in DOMAIN thr.th :
       /\ thr.th[t].pc = Idle
       /\ thr.th[t].hist = <<"mulmod", "montgomery_reduce">>
       /\ thr.th[t].h["d"] # thr.th[t].h0["d"]
  /\ DOMAIN thr.th # {}

\* what the modular operation named op leaves for the inputs of the last call
ModValue(op) ==
  IF op = "addmod_alias" THEN EMod(PreA + PreB, PreN)
  ELSE IF op = "submod_alias" THEN EMod(PreA - PreB, PreN)
  ELSE IF op = "mulmod_alias" THEN EMod(PreA * PreB, PreN)
  ELSE EMod(PreA * PreA, PreN)

ModAliased ==
  /\ last.op \in {ModAliasName[op] : op \in ModOps}
  /\ last.f = 0
  /\ PreN > 0

\* C24: addmod, submod, mulmod and sqrmod with a modulus n > 0 and the
\* destination one of their inputs, the modulus included, return OK and leave
\* mod(a + b, n), mod(a - b, n), mod(a * b, n), mod(a * a, n) in it.
C24_ModAlias ==
  ModAliased => /\ last.st = CRYPT_OK
                /\ Val(h[out.dst]) = ModValue(last.op)

\* the same with the destination an operand, not the modulus
C24_ModAliasOperand ==
  (ModAliased /\ out.dst # "n") => /\ last.st = CRYPT_OK
                                   /\ Val(h[out.dst]) = ModValue(last.op)
                                   /\ h[out.dst].s = 1

\* with the destination the modulus, no call returns OK with the value
C24_ModulusDestroyed ==
  (ModAliased /\ out.dst = "n") => /\ last.st \in {NO_RETURN, CRYPT_ERROR}
                                   /\ Val(h["n"]) # PreN

\* C25: rng_read(buf, N) returns 0 only when all N bytes were filled; a
\* short read and a read of no byte both return a value that is not 0.
C25_RngRead ==
  last.op = "rng_read" => (last.st = MPI_OK => out.ret = out.arg)

\* what the callback tests: an error exactly when no byte was delivered
C25_RngReadNoByte ==
  last.op = "rng_read" => (last.st = MPI_OK <=> out.ret > 0)

\* one byte of two delivered, and the callback returned 0
C25_ShortReadAccepted ==
  /\ last.op = "rng_read"
  /\ out.arg = 2
  /\ out.ret = 1
  /\ last.st = MPI_OK

\* modi was called with a small operand in range and no allocation failed
ModICalled == last.op = "modi" /\ last.f = 0 /\ out.arg \in 1..UINT32_MAX

\* C26: for a >= 0 and 1 <= b <= 2^32 - 1, modi(a, b, &c) returns OK with
\* c = a mod b, 0 <= c < b, and a is not modified.
C26_ModI ==
  (ModICalled /\ Val(last.pre[out.src]) >= 0)
  => /\ last.st = CRYPT_OK
     /\ out.ret = EMod(Val(last.pre[out.src]), out.arg)
     /\ out.ret >= 0 /\ out.ret < out.arg
     /\ h = last.pre

\* what modi does: for a > 0 it returns OK with the top digit of b mod a,
\* which is b mod a when that fits one digit; a <= 0 is a MEMORY error and *c
\* keeps what it held; a is not modified
C26_ModIExchanged ==
  ModICalled
  => /\ h = last.pre
     /\ Val(last.pre[out.src]) > 0
        => /\ last.st = CRYPT_OK
           /\ EMod(out.arg, Val(last.pre[out.src])) < Base
              => out.ret = EMod(out.arg, Val(last.pre[out.src]))
     /\ Val(last.pre[out.src]) <= 0
        => /\ last.st = CRYPT_MEM
           /\ out.ret = PriorDigit

\* what montgomery_reduce leaves in x when the modulus of the last call is
\* stored in exactly its used digits, with the context set up for it
ReduceTrimmed ==
  LET hs == [last.pre EXCEPT !["n"] = Stored(Val(last.pre["n"]))]
      c  == montgomery_setup(Enter(hs), "n", FALSE).ctx
  IN montgomery_reduce(Enter(hs), "x", "n", c, 0)

ReducedOdd ==
  /\ last.op = "montgomery_reduce"
  /\ last.f = 0
  /\ OddModulus
  /\ PreX >= 0

\* C27: montgomery_normalization and montgomery_reduce use the same R
\* whatever the number of stored digits of N: montgomery_reduce leaves the
\* value it leaves for N stored trimmed, and the round trip through the
\* normalization returns a.
C27_Representation ==
  /\ ReducedOdd => /\ last.st = ReduceTrimmed.st
                   /\ Val(h["x"]) = Val(ReduceTrimmed.m["x"])
  /\ (ReducedOdd /\ form.x = "reduced" /\ Val(h["a"]) < Val(h["n"]))
     => Val(h["x"]) = Val(h["a"])

\* the normalization does not depend on the stored digits: its shift count
\* is that of the trimmed modulus
C27_NormalizationTrimmed ==
  NormShift(h["n"]) = NormShift(Stored(Val(h["n"])))

\* a reduce by a modulus with a leading zero digit left another value than
\* the reduce by the same modulus trimmed
C27_ReduceDependsOnDigits ==
  /\ ReducedOdd
  /\ h["n"].n > Used(h["n"].v)
  /\ Val(h["x"]) # Val(ReduceTrimmed.m["x"])

\* C28: montgomery_reduce(x, n, ctx) modifies neither the modulus nor any
\* other handle but x, nor the context, which still holds the constant the
\* setup computed for n; a call that fails leaves x as it was; and no
\* temporary of the call is live after it, whatever its exit.
C28_ReduceFrame ==
  last.op = "montgomery_reduce"
  => /\ \A c \in Handles \ {"x"} : h[c] = last.pre[c]
     /\ ctx = montgomery_setup(Enter(h), "n", FALSE).ctx
     /\ live.ctx = last.prelive
     /\ last.st # CRYPT_OK => h["x"] = last.pre["x"]
     /\ live.tmp = 0

\* a reduce whose final copy failed on its allocation, after a reduction
\* that produced another value than x holds
C28_Witness ==
  /\ last.op = "montgomery_reduce"
  /\ last.f = 5
  /\ last.st = CRYPT_MEM
  /\ PreX > 0
  /\ Val(montgomery_reduce(Enter(last.pre), "x", "n", ctx, 0).m["x"]) # PreX
  /\ h["x"] = last.pre["x"]

\* a reduce of a value above the modulus failed on an allocation
C28_FailedAboveModulus ==
  /\ last.op = "montgomery_reduce"
  /\ last.st = CRYPT_MEM
  /\ PreX > PreN
  /\ PreN > 1

\* an init_copy that returned OK: the handle is a new object, equal to the
\* source, and the call's one allocation is live; the source is as it was
CloneMade ==
  /\ out.dst \notin {NULL, out.src}
  /\ compare(h[out.dst], h[out.src]) = LTC_MP_EQ
  /\ h[out.dst].s = h[out.src].s
  /\ out.ret = 1

\* a change of the source leaves the clone as it was, and the reverse
Independent ==
  /\ last.op = "neg_source" => h[out.dst] = last.pre[out.dst]
  /\ last.op = "neg_clone" => h[out.src] = last.pre[out.src]

\* C29: init_copy is all-or-nothing: when it returns OK the handle holds a
\* clone equal to the source and independent of it; when it returns an
\* error no handle allocation made by the call is live; the source is
\* unchanged either way.
C29_InitCopy ==
  /\ last.op = "init_copy"
     => /\ h[out.src] = last.pre[out.src]
        /\ last.st = CRYPT_OK => CloneMade
        /\ last.st # CRYPT_OK => out.ret = 0
  /\ Independent

\* the part that holds: the clone on success, nothing allocated when the
\* allocation of the handle itself fails, and deinit releases what is left
C29_InitCopyButLeak ==
  /\ last.op = "init_copy"
     => /\ h[out.src] = last.pre[out.src]
        /\ last.f = 0 => last.st = CRYPT_OK
        /\ last.st = CRYPT_OK => CloneMade
        /\ last.f = 1 => last.st = CRYPT_MEM /\ out.ret = 0 /\ out.dst = NULL
  /\ Independent
  /\ last.op = "deinit" => out.ret = 0 /\ h[out.dst] = MpiInit

\* init_copy returned MEMORY because the copy could not allocate, and the
\* handle it allocated is live
C29_HandleLeft ==
  /\ last.op = "init_copy"
  /\ last.f = 2
  /\ last.st = CRYPT_MEM
  /\ out.dst = "d"
  /\ out.ret = 1

=============================================================================
